---------------------------- MODULE Spec2Model ----------------------------
(***************************************************************************)
(* Model of the notification store (InMemoryNotificationService) and of    *)
(* the email delivery engine (txEmail: sendEmail, the job queue, its       *)
(* drainer, deliverWithRetry, deliverEmailJob and getTransport) of         *)
(* srCredoftn/dash-dao.                                                    *)
(*                                                                         *)
(* Two state machines share this module:                                   *)
(*   Spec        the notification store with the asynchronous persistence  *)
(*               and email-mirroring task that every add starts;           *)
(*   SpecEngine  the delivery engine; FairSpecEngine adds the fairness of  *)
(*               the Node event loop (a runnable continuation runs).       *)
(* Each specification leaves the other machine's variables untouched.      *)
(***************************************************************************)
EXTENDS Integers, Sequences, FiniteSets, TLC

(***************************************************************************)
(* Bounds of the model.                                                    *)
(***************************************************************************)
\* number of add calls made by callers of the store
MaxAdds == 1
\* last value of the clock
MaxTime == 1

\* number of sendEmail calls made by callers of the engine
MaxSends == 3
\* summary.failed, which a failing transport can drive without bound, is
\* exact below MaxCount and stays at it
MaxCount == 4
\* so is the number of sendMail calls a scripted server counts, at MaxCalls
MaxCalls == 5
\* tasks of a record given to computeDaoProgress
MaxTasks == 3

(***************************************************************************)
(* Program constants.  The capacities are scaled down, keeping their       *)
(* order: the page of listForUser is smaller than the store.  The clock    *)
(* counts units of five minutes, so that the default cooldown of           *)
(* max(5 min, 10 min) is two units.                                        *)
(***************************************************************************)
\* private MAX_ITEMS = 1000 (scaled)
MAX_ITEMS == 3
\* .slice(0, 200) in listForUser (scaled)
LIST_LIMIT == 2
\* EMAIL_ERROR_NOTIFY_INTERVAL_MS, in clock units
EMAIL_ERROR_NOTIFY_INTERVAL_MS == 2
\* retryAsync(fn, 3)
MIRROR_ATTEMPTS == 3
\* Math.min(200 * Math.pow(2, i), 2000) in retryAsync
BACKOFF_BASE_MS == 200
BACKOFF_CAP_MS == 2000
\* SMTP_MAX_CONCURRENT, default 3 (scaled)
MAX_CONCURRENT == 2
\* SMTP_MAX_RETRY, default 3
MAX_RETRY == 3
\* SMTP_RETRY_DELAY_MS, default 2000
RETRY_DELAY_MS == 2000
\* SMTP_QUEUE_INTERVAL_MS, default 200
QUEUE_INTERVAL_MS == 200
\* SMTP_BATCH_SIZE, default 25 (scaled)
BATCH_SIZE == 2

Users == {"u1", "u2"}
\* String(err.responseCode || err.code || "unknown") of a failed sendEmail
ErrorCodes == {"unknown", "421"}
NoCode == "none"
\* data.skipEmailMirror as callers of add pass it: no caller in the repository
\* sets it, only mirrorEmail does for its own error notification
CallerSkips == {FALSE}

\* every notification id the model can hand out: each add of a caller can be
\* followed by one add of an error notification.  The cooldown scenarios need
\* three failed mirrors, so their specification allows two more adds.
MaxIds == 2 * (MaxAdds + 2)
Ids == 1..MaxIds

VARIABLES
    \* ---- notification store ----
    notifications,   \* this.notifications, most recent first
    broadcastAll,    \* process.env.EMAIL_BROADCAST_ALL === "true"
    now,             \* Date.now()
    nextId,          \* the next notification id
    task,            \* per notification: the async closure started by add
    lastEmailErrorNotificationAt,
    lastEmailErrorNotificationCode,
    errorLog,        \* history: per error code, when the latest error
                     \* notification with that code was added (-1: never)
    addsLeft,        \* how many more add calls the callers make
    dropped,         \* history: ids removed by eviction or clearAll
    reply,           \* what the latest call on the store returned
    \* ---- delivery engine ----
    config,          \* process.env as the engine reads it
    transportMode,   \* how the SMTP servers answer sendMail
    emailQueue,      \* emailQueue: ids of the jobs waiting, oldest first
    persistedQueue,  \* persistedQueue: ids of the serialized jobs
    isProcessingQueue,
    drainer,         \* where processQueue is: "idle", "round" or "sleep"
    round,           \* the jobs claimed by the current round
    job,             \* per job: deliverWithRetry / deliverEmailJob and result
    nextJob,         \* the next job id
    sendsLeft,       \* how many more sendEmail calls the callers make
    \* ---- startup of the engine ----
    snapshotFile,    \* what QUEUE_PERSIST_PATH held when the process started
    loader,          \* where loadPersistedQueue is: "reading" or "done"
    \* ---- pure functions (progress, change detection, templates) ----
    call,            \* the function applied, its input and, once it has
                     \* returned, its result
    \* ---- the snapshot file of the queue and what the transports got ----
    mkdirs,          \* persistQueueSnapshot calls suspended at await mkdir
    writeChain,      \* persistQueueChain: the payloads of the writeFile
                     \* calls chained and not finished, oldest first
    written,         \* history: how many writeFile calls have finished
    handed,          \* history: the batches sendMail accepted, in order
    \* ---- DaoService and POST /api/dao ----
    daoRepo,         \* the repository: the DAOs, by sequence number
    lastIssuedSeqByYear, \* lastIssuedSeqByYear of the current year
    issued,          \* history: what generateNextDaoNumber returned, in order
    idempotencyCache, \* idempotencyCache: entries key, expires, dao
    request,         \* the POST requests: key, position and answer
    clock            \* Date.now() of the routes

storeVars == <<notifications, broadcastAll, now, nextId, task,
               lastEmailErrorNotificationAt, lastEmailErrorNotificationCode,
               errorLog, addsLeft, dropped, reply>>

engineVars == <<config, transportMode, emailQueue, persistedQueue,
                isProcessingQueue, drainer, round, job, nextJob, sendsLeft>>

startupVars == <<snapshotFile, loader>>

pureVars == <<call>>

ioVars == <<mkdirs, writeChain, written, handed>>

daoVars == <<daoRepo, lastIssuedSeqByYear, issued, idempotencyCache, request, clock>>

vars == <<storeVars, engineVars, startupVars, pureVars, ioVars, daoVars>>

(***************************************************************************)
(* Helpers on sequences.                                                   *)
(***************************************************************************)
Range(s) == {s[i] : i \in 1..Len(s)}

Take(s, n) == IF Len(s) <= n THEN s ELSE SubSeq(s, 1, n)

Min(a, b) == IF a < b THEN a ELSE b

(***************************************************************************)
(* Notification store: pure parts.                                         *)
(***************************************************************************)
\* recipients: "all" | string[]
AllRecipients == [all |-> TRUE, ids |-> {}]
Explicit(S) == [all |-> FALSE, ids |-> S]

isRecipientAlways(userId, n) == TRUE

isRecipientNoAll(userId, n) == userId \in n.recipients.ids

isRecipient(userId, n) == n.recipients.all \/ userId \in n.recipients.ids

toClientUnread(userId, n) == [id |-> n.id, read |-> FALSE]

toClient(userId, n) == [id |-> n.id, read |-> userId \in n.readBy]

InStore(id) == \E i \in 1..Len(notifications) : notifications[i].id = id

Visible(userId) == SelectSeq(notifications, LAMBDA n : isRecipient(userId, n))

\* Array.prototype.sort with (a, b) => (a.createdAt < b.createdAt ? 1 : -1):
\* entries with different createdAt come newest first; the comparator answers
\* -1 both ways for equal createdAt, which is not a consistent comparator, so
\* the order of such entries is implementation-defined: any order.
SortedByCreatedAtDesc(s) ==
    { [i \in 1..Len(s) |-> s[p[i]]] :
        p \in { q \in [1..Len(s) -> 1..Len(s)] :
                  /\ \A i, j \in 1..Len(s) : i # j => q[i] # q[j]
                  /\ \A i, j \in 1..Len(s) :
                        i < j => s[q[i]].createdAt >= s[q[j]].createdAt } }

ListForUserResults(userId) ==
    { [i \in 1..Min(Len(s), LIST_LIMIT) |-> toClient(userId, s[i])] :
        s \in SortedByCreatedAtDesc(Visible(userId)) }

UnshiftWhenRoom(item, list) ==
    IF Len(list) >= MAX_ITEMS THEN list ELSE <<item>> \o list

\* this.notifications.unshift(item); slice(0, MAX_ITEMS) when longer
Unshift(item, list) == Take(<<item>> \o list, MAX_ITEMS)

Evicted(item, list) ==
    {list[i].id : i \in 1..Len(list)} \ {n.id : n \in Range(Unshift(item, list))}

NewItem(id, recipients, skip, emailError, code) ==
    [ id              |-> id,
      recipients      |-> IF broadcastAll THEN AllRecipients ELSE recipients,
      readBy          |-> {},
      createdAt       |-> now,
      skipEmailMirror |-> skip,
      emailError      |-> emailError,
      code            |-> code ]

\* the closure (async () => { await persist; await mirror })() of add
\* history: calls counts the sendEmail calls of retryAsync, permanent is the
\* flag of the last error it caught, wait the delay of its last sleep
NoTask == [pc |-> "none", i |-> 0, calls |-> 0, skip |-> FALSE, parent |-> 0,
           persist |-> "none", result |-> "none", permanent |-> FALSE,
           wait |-> 0]
NewTask(skip, parent) ==
    [pc |-> "persist", i |-> 0, calls |-> 0, skip |-> skip, parent |-> parent,
     persist |-> "none", result |-> "none", permanent |-> FALSE, wait |-> 0]

NoReply == [op |-> "none"]

(***************************************************************************)
(* shouldNotifyEmailError(code): one slot, the last code notified.         *)
(***************************************************************************)
InCooldown(code) ==
    /\ lastEmailErrorNotificationCode = code
    /\ now - lastEmailErrorNotificationAt < EMAIL_ERROR_NOTIFY_INTERVAL_MS

shouldNotifyEmailError(code) == ~InCooldown(code)

(***************************************************************************)
(* Notification store: the operations.                                     *)
(***************************************************************************)
InitStore ==
    /\ notifications = <<>>
    /\ broadcastAll \in BOOLEAN
    /\ now = 0
    /\ nextId = 1
    /\ task = [id \in Ids |-> NoTask]
    /\ lastEmailErrorNotificationAt = 0
    /\ lastEmailErrorNotificationCode = NoCode
    /\ errorLog = [c \in ErrorCodes |-> -1]
    /\ addsLeft = MaxAdds
    /\ dropped = {}
    /\ reply = NoReply

\* Date.now() advances
Tick ==
    /\ now < MaxTime
    /\ now' = now + 1
    /\ reply' = NoReply
    /\ UNCHANGED <<notifications, broadcastAll, nextId, task,
                   lastEmailErrorNotificationAt,
                   lastEmailErrorNotificationCode, errorLog, addsLeft, dropped>>

\* add(n) / broadcast(...): the item is in the list when add returns; the
\* closure that persists and mirrors it is only started
Add(recipients, skip) ==
    /\ addsLeft > 0
    /\ nextId <= MaxIds
    /\ addsLeft' = addsLeft - 1
    /\ LET item == NewItem(nextId, recipients, skip, FALSE, NoCode) IN
         /\ notifications' = Unshift(item, notifications)
         /\ dropped' = dropped \cup Evicted(item, notifications)
         /\ task' = [task EXCEPT ![nextId] = NewTask(skip, 0)]
         /\ reply' = [op |-> "add", id |-> item.id, recipients |-> recipients]
    /\ nextId' = nextId + 1
    /\ UNCHANGED <<broadcastAll, now, lastEmailErrorNotificationAt,
                   lastEmailErrorNotificationCode, errorLog>>

\* listForUser(userId)
ListForUser(userId) ==
    /\ \E r \in ListForUserResults(userId) :
          reply' = [op |-> "listForUser", user |-> userId, list |-> r]
    /\ UNCHANGED <<notifications, broadcastAll, now, nextId, task,
                   lastEmailErrorNotificationAt,
                   lastEmailErrorNotificationCode, errorLog, addsLeft, dropped>>

ReadByAddAll(n, userId) == [n EXCEPT !.readBy = @ \cup Users]

ReadByReplace(n, userId) == [n EXCEPT !.readBy = {userId}]

\* n.readBy.add(userId)
ReadByAdd(n, userId) == [n EXCEPT !.readBy = @ \cup {userId}]

UnreadOrRead(userId) ==
    {i \in 1..Len(notifications) : isRecipient(userId, notifications[i])}

\* markAllRead: the entries with isRecipient(userId, n) && !n.readBy.has(userId)
Unread(userId) ==
    {i \in 1..Len(notifications) :
        /\ isRecipient(userId, notifications[i])
        /\ userId \notin notifications[i].readBy}

\* markRead(userId, notifId): find the first entry with that id
MarkRead(userId, notifId) ==
    /\ LET hits == {i \in 1..Len(notifications) : notifications[i].id = notifId} IN
         IF hits = {} \/ ~isRecipient(userId, notifications[CHOOSE i \in hits : \A j \in hits : i <= j])
         THEN /\ reply' = [op |-> "markRead", user |-> userId, id |-> notifId, ok |-> FALSE]
              /\ UNCHANGED notifications
         ELSE LET k == CHOOSE i \in hits : \A j \in hits : i <= j IN
              /\ notifications' = [notifications EXCEPT ![k] = ReadByAdd(@, userId)]
              /\ reply' = [op |-> "markRead", user |-> userId, id |-> notifId, ok |-> TRUE]
    /\ UNCHANGED <<broadcastAll, now, nextId, task,
                   lastEmailErrorNotificationAt,
                   lastEmailErrorNotificationCode, errorLog, addsLeft, dropped>>

\* markAllRead(userId)
MarkAllRead(userId) ==
    /\ LET unread == Unread(userId) IN
         /\ notifications' = [i \in 1..Len(notifications) |->
                IF i \in unread
                THEN ReadByAdd(notifications[i], userId)
                ELSE notifications[i]]
         /\ reply' = [op |-> "markAllRead", user |-> userId, count |-> Cardinality(unread)]
    /\ UNCHANGED <<broadcastAll, now, nextId, task,
                   lastEmailErrorNotificationAt,
                   lastEmailErrorNotificationCode, errorLog, addsLeft, dropped>>

\* clearAll()
ClearAll ==
    /\ notifications # <<>>
    /\ notifications' = <<>>
    /\ dropped' = dropped \cup {n.id : n \in Range(notifications)}
    /\ reply' = [op |-> "clearAll"]
    /\ UNCHANGED <<broadcastAll, now, nextId, task,
                   lastEmailErrorNotificationAt,
                   lastEmailErrorNotificationCode, errorLog, addsLeft>>

(***************************************************************************)
(* The closure started by add: persistNotification, then mirrorEmail.      *)
(***************************************************************************)
\* getNotificationRepo() gives no repository, repo.add resolves, or it throws
PersistOutcomes == {"norepo", "saved", "threw"}

PersistErrorEscapesUncaught(outcome) == outcome = "threw"

\* persistNotification wraps everything in try/catch, and add chains
\* .catch(() => {}): no outcome leaves the closure as an error
PersistErrorEscapes(outcome) == FALSE

PersistStep(id) ==
    /\ task[id].pc = "persist"
    /\ \E outcome \in PersistOutcomes :
          task' = [task EXCEPT ![id].persist = outcome,
                               ![id].pc = IF PersistErrorEscapes(outcome)
                                          THEN "crashed" ELSE "mirror"]
    /\ reply' = NoReply
    /\ UNCHANGED <<notifications, broadcastAll, now, nextId,
                   lastEmailErrorNotificationAt,
                   lastEmailErrorNotificationCode, errorLog, addsLeft, dropped>>

\* if (item?.data && item.data?.skipEmailMirror) return;
MirrorExempt(t) == t.skip

\* mirrorEmail up to the first sendEmail: exempt, no valid address resolved
\* (skip, logged), or some addresses resolved
MirrorStart(id) ==
    /\ task[id].pc = "mirror"
    /\ LET resumed == [task EXCEPT ![id].persist = "none"] IN
       IF MirrorExempt(task[id])
       THEN task' = [resumed EXCEPT ![id].pc = "done", ![id].result = "exempt"]
       ELSE \E empty \in BOOLEAN :
              task' = IF empty
                      THEN [resumed EXCEPT ![id].pc = "done",
                                           ![id].result = "norecipients"]
                      ELSE [resumed EXCEPT ![id].pc = "send", ![id].i = 0]
    /\ reply' = NoReply
    /\ UNCHANGED <<notifications, broadcastAll, now, nextId,
                   lastEmailErrorNotificationAt,
                   lastEmailErrorNotificationCode, errorLog, addsLeft, dropped>>

\* what awaiting sendEmail gives the mirror: it resolves, or it rejects with
\* an EmailSendError carrying a code and the permanent flag
SendOutcomes ==
    {[ok |-> TRUE, code |-> NoCode, permanent |-> FALSE]}
    \cup [ok : {FALSE}, code : ErrorCodes, permanent : BOOLEAN]

ErrorDataUnflagged(code) == [skipEmailMirror |-> FALSE, emailError |-> TRUE, code |-> code]

\* data of the system notification added after an exhausted failure
ErrorData(code) == [skipEmailMirror |-> TRUE, emailError |-> TRUE, code |-> code]

GivesUpLastOnly(i, outcome) == i = MIRROR_ATTEMPTS - 1

\* retryAsync: const wait = Math.min(200 * Math.pow(2, i), 2000)
BackoffWait(i) == Min(BACKOFF_BASE_MS * 2^i, BACKOFF_CAP_MS)

\* retryAsync: give up on a permanent error or on the last attempt
GivesUp(i, outcome) == outcome.permanent \/ i = MIRROR_ATTEMPTS - 1

\* one sendEmail call of retryAsync and what follows its answer: success ends
\* the mirror; a failure that gives up runs the catch block (cooldown, then
\* this.add of the system notification, which runs to its return before the
\* closure is suspended again); any other failure goes to the backoff sleep
SendStep(id) ==
    /\ task[id].pc = "send"
    /\ nextId <= MaxIds
    /\ \E outcome \in SendOutcomes :
        LET called == [task EXCEPT ![id].calls = @ + 1,
                                   ![id].permanent = outcome.permanent] IN
        IF outcome.ok
        THEN /\ task' = [called EXCEPT ![id].pc = "done", ![id].result = "sent"]
             /\ UNCHANGED <<notifications, nextId, lastEmailErrorNotificationAt,
                            lastEmailErrorNotificationCode, errorLog, dropped>>
        ELSE IF ~GivesUp(task[id].i, outcome)
        THEN /\ task' = [called EXCEPT ![id].pc = "wait",
                                       ![id].wait = BackoffWait(task[id].i)]
             /\ UNCHANGED <<notifications, nextId, lastEmailErrorNotificationAt,
                            lastEmailErrorNotificationCode, errorLog, dropped>>
        ELSE IF ~shouldNotifyEmailError(outcome.code)
        THEN /\ task' = [called EXCEPT ![id].pc = "done", ![id].result = "failed"]
             /\ UNCHANGED <<notifications, nextId, lastEmailErrorNotificationAt,
                            lastEmailErrorNotificationCode, errorLog, dropped>>
        ELSE LET data == ErrorData(outcome.code)
                 item == NewItem(nextId, AllRecipients, data.skipEmailMirror,
                                 data.emailError, data.code)
             IN
             /\ lastEmailErrorNotificationAt' = now
             /\ lastEmailErrorNotificationCode' = outcome.code
             /\ notifications' = Unshift(item, notifications)
             /\ dropped' = dropped \cup Evicted(item, notifications)
             /\ task' = [called EXCEPT ![id].pc = "done",
                                       ![id].result = "failed",
                                       ![nextId] = NewTask(data.skipEmailMirror, id)]
             /\ nextId' = nextId + 1
             /\ errorLog' = [errorLog EXCEPT ![outcome.code] = now]
    /\ reply' = NoReply
    /\ UNCHANGED <<broadcastAll, now, addsLeft>>

\* the backoff sleep of retryAsync ends
WaitStep(id) ==
    /\ task[id].pc = "wait"
    /\ task' = [task EXCEPT ![id].pc = "send", ![id].i = @ + 1]
    /\ reply' = NoReply
    /\ UNCHANGED <<notifications, broadcastAll, now, nextId,
                   lastEmailErrorNotificationAt,
                   lastEmailErrorNotificationCode, errorLog, addsLeft, dropped>>

\* the store as its callers drive it, without the closures
NextRead ==
    \/ Tick /\ UNCHANGED <<engineVars, startupVars, pureVars, ioVars, daoVars>>
    \/ (\E r \in {AllRecipients, Explicit({"u1"}), Explicit({})},
            skip \in CallerSkips : Add(r, skip))
         /\ UNCHANGED <<engineVars, startupVars, pureVars, ioVars, daoVars>>
    \/ (\E u \in Users : ListForUser(u)) /\ UNCHANGED <<engineVars, startupVars, pureVars, ioVars, daoVars>>
    \/ (\E u \in Users, id \in 1..nextId : MarkRead(u, id))
         /\ UNCHANGED <<engineVars, startupVars, pureVars, ioVars, daoVars>>
    \/ (\E u \in Users : MarkAllRead(u)) /\ UNCHANGED <<engineVars, startupVars, pureVars, ioVars, daoVars>>
    \/ ClearAll /\ UNCHANGED <<engineVars, startupVars, pureVars, ioVars, daoVars>>


(***************************************************************************)
(* Email addresses (utils/email.ts), on the raw values the model sends.    *)
(***************************************************************************)
Null == "null"

\* normalizeEmail: trim, then lower case; null when nothing is left
normalizeEmail(value) ==
    CASE value = " A@X.COM " -> "a@x.com"
      [] value = " "         -> Null
      [] OTHER               -> value

\* EMAIL_REGEX.test on a normalized value
MatchesEmailRegex(normalized) == normalized \in {"a@x.com", "b@x.com", "c@x.com"}

\* partitionEmails(inputs).valid
RECURSIVE PartitionValid(_)
PartitionValid(inputs) ==
    IF inputs = <<>> THEN <<>>
    ELSE LET normalized == normalizeEmail(Head(inputs)) IN
         IF normalized # Null /\ MatchesEmailRegex(normalized)
         THEN <<normalized>> \o PartitionValid(Tail(inputs))
         ELSE PartitionValid(Tail(inputs))

NoDedupe(list) == list

\* Array.from(new Set(valid)): the first occurrence of each value, in order
RECURSIVE Dedupe(_)
Dedupe(list) ==
    IF list = <<>> THEN <<>>
    ELSE LET front == Dedupe(SubSeq(list, 1, Len(list) - 1))
             last == list[Len(list)]
         IN IF last \in Range(front) THEN front ELSE Append(front, last)

\* the recipient lists callers pass to sendEmail
SendInputs ==
    { <<"a@x.com", "not-an-email", "b@x.com">>,
      <<" A@X.COM ", "b@x.com", "a@x.com", "c@x.com">>,
      <<"not-an-email", " ">> }

(***************************************************************************)
(* Delivery engine: transports.                                            *)
(***************************************************************************)
\* the candidates of getTransport, in order: the primary, then the fallbacks
\* of SMTP_FALLBACK_ORDER (one fallback provider is modelled)
Candidates == <<"primary", "sendgrid">>
HostOf(name) == IF name = "primary" THEN "smtp.primary" ELSE "smtp.sendgrid.net"
NoHost == "none"

Config(disabled, dryRun, primary, sendgrid) ==
    [disabled |-> disabled, dryRun |-> dryRun,
     complete |-> [c \in {"primary", "sendgrid"} |->
                     IF c = "primary" THEN primary ELSE sendgrid]]

\* the environments: SMTP_DISABLE, SMTP_DRY_RUN, and which candidates have
\* their host, user and pass set
Configs ==
    { Config(FALSE, TRUE, TRUE, FALSE),
      Config(TRUE, FALSE, TRUE, TRUE),
      Config(FALSE, FALSE, FALSE, FALSE),
      Config(FALSE, FALSE, TRUE, FALSE),
      Config(FALSE, FALSE, TRUE, TRUE) }

\* candidates whose host, user and pass are all set
CompleteCandidates == SelectSeq(Candidates, LAMBDA c : config.complete[c])

\* getTransport(excludeHosts): every host it can return, NoHost for null.  A
\* complete candidate that is not excluded is returned when its verify()
\* succeeds and that of the ones before it did not; when none verifies, the
\* first complete candidate is returned unverified, excluded or not.
GetTransportResults(excludeHosts) ==
    IF config.disabled \/ CompleteCandidates = <<>> THEN {NoHost}
    ELSE {HostOf(c) : c \in {d \in Range(CompleteCandidates) : HostOf(d) \notin excludeHosts}}
         \cup {HostOf(CompleteCandidates[1])}

\* sendMail can be reached: no dry run, and getTransport gives a transport
CanSend == ~config.dryRun /\ GetTransportResults({}) # {NoHost}

\* the codes of a failed sendMail: String(err.responseCode || err.code || "unknown")
TransportCodes == {"421", "550"}

\* isTemporarySmtpError on those codes: /^4\d\d$/ is temporary, 550 is not
isTemporarySmtpError(code) == code \in {"421"}

\* how the SMTP servers answer.  "free" is any answer to any call; the others
\* are scripted servers: "tempThenOk" fails its first sendMail call with a
\* temporary code and is "thenOk" from then on, where every call succeeds;
\* "alwaysPerm" fails every call with a permanent code
TransportModes == {"free", "tempThenOk", "alwaysPerm"}

AfterCall(mode) == IF mode = "tempThenOk" THEN "thenOk" ELSE mode

CapAdd(a, b) == Min(a + b, MaxCount)

\* the scripted servers count the sendMail calls they get, per job
Counted(sends) == IF transportMode = "free" THEN sends ELSE Min(sends + 1, MaxCalls)

\* the answers sendMail can give now: "ok" or an error code
SendMailAnswers ==
    CASE transportMode = "tempThenOk" -> {"421"}
      [] transportMode = "thenOk"     -> {"ok"}
      [] transportMode = "alwaysPerm" -> {"550"}
      [] OTHER                        -> {"ok"} \cup TransportCodes

(***************************************************************************)
(* Delivery engine: a job.                                                 *)
(***************************************************************************)
NoResult == [status |-> "none"]
NoErr == [code |-> NoCode, permanent |-> FALSE, thrown |-> FALSE]

\* a job as enqueueEmailJob creates it, with the locals of deliverWithRetry
\* (attempt, delay) and of deliverEmailJob (index, summary, flags, transport);
\* history: to is what the caller of sendEmail passed, restored tells a job
\* that loadPersistedQueue made
NewJob(recipients) ==
    [ pc |-> "queued", id |-> 0, recipients |-> recipients,
      to |-> <<>>, restored |-> FALSE,
      attempt |-> 1, delay |-> 0,
      index |-> 0, sent |-> 0, failed |-> 0,
      hasErrors |-> FALSE, hasPermanentFailure |-> FALSE, firstCode |-> NoCode,
      host |-> NoHost, excluded |-> {}, err |-> NoErr,
      sends |-> 0, result |-> NoResult ]

\* the locals of deliverEmailJob when it is entered (again)
Entered(j) ==
    [j EXCEPT !.index = 0, !.sent = 0, !.failed = 0, !.hasErrors = FALSE,
              !.hasPermanentFailure = FALSE, !.firstCode = NoCode,
              !.host = NoHost, !.excluded = {}, !.delay = 0, !.err = NoErr]

NumBatches(n) == (n + BATCH_SIZE - 1) \div BATCH_SIZE

\* sendEmail after enqueueEmailJob resolved with a summary
SendEmailOnSummary(sent, failed, firstCode) ==
    IF failed = 0 \/ sent # 0
    THEN [status |-> "resolved", code |-> NoCode, permanent |-> FALSE,
          sent |-> sent, failed |-> failed]
    ELSE [status |-> "rejected", code |-> firstCode,
          permanent |-> (firstCode = "transport_unavailable"),
          sent |-> sent, failed |-> failed]

\* sendEmail after enqueueEmailJob rejected: the EmailSendError is rethrown
SendEmailOnError(code, permanent, sent, failed) ==
    [status |-> "rejected", code |-> code, permanent |-> permanent,
     sent |-> sent, failed |-> failed]

\* job.resolve / job.reject: the job is over, sendEmail gets its answer
Settled(j, result) == [Entered(j) EXCEPT !.pc = "settled", !.result = result]

ShouldRetryAlways(attempt, permanent) == TRUE

ShouldRetryOnceMore(attempt, permanent) == attempt <= MAX_RETRY /\ ~permanent

\* deliverWithRetry: if (attempt < MAX_RETRY && !err.permanent)
ShouldRetry(attempt, permanent) == attempt < MAX_RETRY /\ ~permanent

\* deliverWithRetry's catch: sleep RETRY_DELAY_MS * attempt and deliver again,
\* or throw to processQueue, which rejects the job
Thrown(j, code, permanent) ==
    IF ShouldRetry(j.attempt, permanent)
    THEN [Entered(j) EXCEPT !.pc = "backoff",
                            !.delay = RETRY_DELAY_MS * j.attempt,
                            !.err = [code |-> code, permanent |-> permanent,
                                     thrown |-> TRUE]]
    ELSE Settled(j, SendEmailOnError(code, permanent, j.sent, j.failed))

TransportUnavailableRetried == [code |-> NoCode, permanent |-> FALSE]

\* throw new EmailSendError(message, undefined, true, summary)
TransportUnavailable == [code |-> NoCode, permanent |-> TRUE]

\* the end of deliverEmailJob's loop: throw when any batch failed at any
\* time (hasErrors), even one that a retry then delivered; else the summary
EndOfBatches(j) ==
    IF j.hasErrors
    THEN Thrown(j, j.firstCode, j.hasPermanentFailure)
    ELSE Settled(j, SendEmailOnSummary(j.sent, j.failed, j.firstCode))

AfterBatch(j) == IF j.index >= Len(j.recipients) THEN EndOfBatches(j) ELSE j

BatchSizeAll(j) == Len(j.recipients) - j.index

\* Math.min(BATCH_SIZE, recipients.length - index)
BatchSize(j) == Min(BATCH_SIZE, Len(j.recipients) - j.index)

\* recipients.slice(index, index + effectiveBatchSize): the bcc of sendMail
Batch(j) == SubSeq(j.recipients, j.index + 1, j.index + BatchSize(j))

\* removePersistedJob: findIndex, then splice(idx, 1): the first entry with
\* that id goes
Remove(queue, id) ==
    LET hits == {i \in 1..Len(queue) : queue[i] = id} IN
    IF hits = {} THEN queue
    ELSE LET idx == CHOOSE i \in hits : \A k \in hits : i <= k IN
         SubSeq(queue, 1, idx - 1) \o SubSeq(queue, idx + 1, Len(queue))

(***************************************************************************)
(* Delivery engine: the operations.                                        *)
(***************************************************************************)
\* const jobs = emailQueue.splice(0, MAX_CONCURRENT), each handed to
\* deliverWithRetry(job, 1)
ClaimIds(queue) == Range(Take(queue, MAX_CONCURRENT))

AfterClaim(queue) ==
    IF Len(queue) <= MAX_CONCURRENT THEN <<>>
    ELSE SubSeq(queue, MAX_CONCURRENT + 1, Len(queue))

Claim(queue, jobs) ==
    /\ emailQueue' = AfterClaim(queue)
    /\ round' = ClaimIds(queue)
    /\ job' = [k \in DOMAIN jobs |->
                 IF k \in ClaimIds(queue) THEN [jobs[k] EXCEPT !.pc = "deliver"]
                 ELSE jobs[k]]

BusyNever == FALSE

\* processQueue: if (isProcessingQueue) return
Busy == isProcessingQueue

\* processQueue() called with this queue and these jobs, up to its first
\* await: nothing when a drainer runs, else the flag is set and the first
\* round is claimed
ProcessQueue(queue, jobs) ==
    IF Busy
    THEN /\ emailQueue' = queue
         /\ job' = jobs
         /\ UNCHANGED <<isProcessingQueue, drainer, round>>
    ELSE /\ isProcessingQueue' = TRUE
         /\ drainer' = "round"
         /\ Claim(queue, jobs)

PushFront(queue, id) == <<id>> \o queue

\* enqueueEmailJob: emailQueue.push(job)
Push(queue, id) == Append(queue, id)

\* sendEmail(to, subject, body): filter and dedupe the addresses; return when
\* none is left; else enqueueEmailJob: addPersistedJob, emailQueue.push and
\* processQueue(), which returns at once while a drainer runs and otherwise
\* claims its first round before sendEmail is suspended
SendEmail(to) ==
    /\ sendsLeft > 0
    /\ sendsLeft' = sendsLeft - 1
    /\ LET recipients == Dedupe(PartitionValid(to)) IN
       IF recipients = <<>>
       THEN UNCHANGED <<emailQueue, persistedQueue, isProcessingQueue, drainer,
                        round, job, nextJob>>
       ELSE /\ nextJob' = nextJob + 1
            /\ persistedQueue' = Append(persistedQueue, nextJob)
            /\ ProcessQueue(Push(emailQueue, nextJob),
                            Append(job, [NewJob(recipients) EXCEPT
                                            !.id = nextJob, !.to = to]))
    /\ UNCHANGED <<config, transportMode>>

\* removePersistedJob(job.id) in the finally of processQueue, once the job is
\* resolved or rejected
AfterJobStep(j) ==
    /\ persistedQueue' = IF job'[j].pc = "settled" THEN Remove(persistedQueue, job[j].id)
                         ELSE persistedQueue
    /\ UNCHANGED <<config, emailQueue, isProcessingQueue, drainer, round,
                   nextJob, sendsLeft>>

\* deliverEmailJob from its entry to its first sendMail: the dry run marks
\* every recipient sent; getTransport([]) gives a transport or null
Deliver(j) ==
    /\ j \in round
    /\ job[j].pc = "deliver"
    /\ LET n == Len(job[j].recipients)
           entered == Entered(job[j])
       IN
       IF config.dryRun
       THEN job' = [job EXCEPT ![j] =
                       Settled(entered, SendEmailOnSummary(n, 0, NoCode))]
       ELSE \E h \in GetTransportResults({}) :
              IF h = NoHost
              THEN job' = [job EXCEPT ![j] =
                              Thrown([entered EXCEPT !.failed = n],
                                     TransportUnavailable.code,
                                     TransportUnavailable.permanent)]
              ELSE job' = [job EXCEPT ![j] = [entered EXCEPT !.pc = "send", !.host = h]]
    /\ UNCHANGED transportMode
    /\ AfterJobStep(j)

\* one sendMail of the batch at index and what follows its answer: success
\* advances; a permanent failure marks the batch failed and advances; a
\* temporary failure excludes the host, asks getTransport for another one,
\* and sleeps before it sends the same batch again
SendBatchAnswer(j, answer) ==
    /\ j \in round
    /\ job[j].pc = "send"
    /\ answer \in SendMailAnswers
    /\ LET size == BatchSize(job[j])
            called == [job[j] EXCEPT !.sends = Counted(@)]
            failed == [called EXCEPT
                          !.failed = CapAdd(@, size),
                          !.hasErrors = TRUE,
                          !.hasPermanentFailure = @ \/ ~isTemporarySmtpError(answer),
                          !.firstCode = IF @ = NoCode THEN answer ELSE @]
        IN
        IF answer = "ok"
        THEN job' = [job EXCEPT ![j] =
                        AfterBatch([called EXCEPT !.sent = @ + size,
                                                  !.index = @ + size])]
        ELSE IF isTemporarySmtpError(answer)
        THEN LET excluded == job[j].excluded \cup {job[j].host} IN
             \E next \in GetTransportResults(excluded) :
                job' = [job EXCEPT ![j] =
                           [failed EXCEPT !.pc = "pause",
                                          !.excluded = excluded,
                                          !.host = IF next # NoHost /\ next # @
                                                   THEN next ELSE @]]
        ELSE job' = [job EXCEPT ![j] = AfterBatch([failed EXCEPT !.index = @ + size])]
    /\ transportMode' = AfterCall(transportMode)
    /\ AfterJobStep(j)

SendBatch(j) == \E answer \in SendMailAnswers : SendBatchAnswer(j, answer)

\* history: the recipients of the batches that sendMail accepted, in order
Accepted(j, answer) ==
    IF answer = "ok" THEN handed \o Batch(job[j]) ELSE handed

\* SendBatch with its history
SendBatchHanded(j) ==
    \E answer \in SendMailAnswers :
        /\ SendBatchAnswer(j, answer)
        /\ handed' = Accepted(j, answer)
        /\ UNCHANGED <<mkdirs, writeChain, written>>

\* the sleep before the same batch is sent again ends (sleep(1000) after a
\* switch of transport, sleep(RETRY_DELAY_MS) without one)
RetryBatch(j) ==
    /\ j \in round
    /\ job[j].pc = "pause"
    /\ job' = [job EXCEPT ![j].pc = "send"]
    /\ UNCHANGED transportMode
    /\ AfterJobStep(j)

\* the sleep of deliverWithRetry ends: deliverWithRetry(job, attempt + 1)
Backoff(j) ==
    /\ j \in round
    /\ job[j].pc = "backoff"
    /\ job' = [job EXCEPT ![j] = [Entered(job[j]) EXCEPT !.pc = "deliver",
                                                         !.attempt = @ + 1]]
    /\ UNCHANGED transportMode
    /\ AfterJobStep(j)

\* a job whose promise was settled and whose round is over: nothing refers
\* to it any more
Done == [NewJob(<<>>) EXCEPT !.pc = "done"]

Forgotten(jobs) == [k \in DOMAIN jobs |-> IF k \in round THEN Done ELSE jobs[k]]

FirstSettled == \E j \in round : job[j].pc = "settled"

\* Promise.allSettled(executions) is fulfilled: every execution of the round
\* has resolved or rejected its job
AllSettled == \A j \in round : job[j].pc = "settled"

RoundDoneWithoutLooking ==
    /\ drainer = "round"
    /\ AllSettled
    /\ drainer' = "idle"
    /\ round' = {}
    /\ job' = Forgotten(job)
    /\ isProcessingQueue' = FALSE
    /\ UNCHANGED emailQueue
    /\ UNCHANGED <<config, transportMode, persistedQueue, nextJob, sendsLeft>>

\* await Promise.allSettled(executions) returns: sleep when jobs wait, or
\* leave the loop and clear isProcessingQueue
RoundDone ==
    /\ drainer = "round"
    /\ AllSettled
    /\ IF emailQueue # <<>>
       THEN IF QUEUE_INTERVAL_MS > 0
            THEN /\ drainer' = "sleep"
                 /\ round' = {}
                 /\ job' = Forgotten(job)
                 /\ UNCHANGED <<emailQueue, isProcessingQueue>>
            ELSE /\ Claim(emailQueue, Forgotten(job))
                 /\ UNCHANGED <<drainer, isProcessingQueue>>
       ELSE /\ drainer' = "idle"
            /\ round' = {}
            /\ job' = Forgotten(job)
            /\ isProcessingQueue' = FALSE
            /\ UNCHANGED emailQueue
    /\ UNCHANGED <<config, transportMode, persistedQueue, nextJob, sendsLeft>>

\* sleep(QUEUE_INTERVAL_MS) ends: the next round is claimed
SleepDone ==
    /\ drainer = "sleep"
    /\ drainer' = "round"
    /\ Claim(emailQueue, job)
    /\ UNCHANGED <<config, transportMode, persistedQueue, isProcessingQueue,
                   nextJob, sendsLeft>>

JobIds == 1..(MaxSends + 1)

\* no pure function is being applied
NoCall == [fn |-> "none"]

NoCalls == call = NoCall

\* no snapshot is being written and no batch has been sent
IoAtRest ==
    /\ mkdirs = 0
    /\ writeChain = <<>>
    /\ written = 0
    /\ handed = <<>>

\* DaoService and the routes before their first call: an empty repository
DaoAtRest ==
    /\ daoRepo = {}
    /\ lastIssuedSeqByYear = 0
    /\ issued = <<>>
    /\ idempotencyCache = {}
    /\ request = <<>>
    /\ clock = 0

\* no snapshot file (readFile fails with ENOENT)
NoFile == [kind |-> "missing", entries |-> <<>>]

\* loadPersistedQueue has returned and found no file
StartupOver == loader = "done" /\ snapshotFile = NoFile

\* the store before its first call
StoreAtRest ==
    /\ notifications = <<>>
    /\ broadcastAll = FALSE
    /\ now = 0
    /\ nextId = 1
    /\ task = [id \in Ids |-> NoTask]
    /\ lastEmailErrorNotificationAt = 0
    /\ lastEmailErrorNotificationCode = NoCode
    /\ errorLog = [c \in ErrorCodes |-> -1]
    /\ addsLeft = 0
    /\ dropped = {}
    /\ reply = NoReply

InitEngine ==
    /\ NoCalls
    /\ IoAtRest
    /\ DaoAtRest
    /\ StoreAtRest
    /\ StartupOver
    /\ config \in Configs
    /\ transportMode \in IF CanSend THEN TransportModes ELSE {"free"}
    /\ emailQueue = <<>>
    /\ persistedQueue = <<>>
    /\ isProcessingQueue = FALSE
    /\ drainer = "idle"
    /\ round = {}
    /\ job = <<>>
    /\ nextJob = 1
    /\ sendsLeft = MaxSends

NextEngine ==
    \/ (\E to \in SendInputs : SendEmail(to)) /\ UNCHANGED <<storeVars, startupVars, pureVars, ioVars, daoVars>>
    \/ (\E j \in JobIds : Deliver(j)) /\ UNCHANGED <<storeVars, startupVars, pureVars, ioVars, daoVars>>
    \/ (\E j \in JobIds : SendBatch(j)) /\ UNCHANGED <<storeVars, startupVars, pureVars, ioVars, daoVars>>
    \/ (\E j \in JobIds : RetryBatch(j)) /\ UNCHANGED <<storeVars, startupVars, pureVars, ioVars, daoVars>>
    \/ (\E j \in JobIds : Backoff(j)) /\ UNCHANGED <<storeVars, startupVars, pureVars, ioVars, daoVars>>
    \/ RoundDone /\ UNCHANGED <<storeVars, startupVars, pureVars, ioVars, daoVars>>
    \/ SleepDone /\ UNCHANGED <<storeVars, startupVars, pureVars, ioVars, daoVars>>

SpecEngine == InitEngine /\ [][NextEngine]_vars

\* every await of the engine returns in the end: timers fire, getTransport
\* and sendMail answer
EngineFairness ==
    /\ \A j \in JobIds : WF_vars(Deliver(j) /\ UNCHANGED <<storeVars, startupVars, pureVars, ioVars, daoVars>>)
    /\ \A j \in JobIds : WF_vars(SendBatch(j) /\ UNCHANGED <<storeVars, startupVars, pureVars, ioVars, daoVars>>)
    /\ \A j \in JobIds : WF_vars(RetryBatch(j) /\ UNCHANGED <<storeVars, startupVars, pureVars, ioVars, daoVars>>)
    /\ \A j \in JobIds : WF_vars(Backoff(j) /\ UNCHANGED <<storeVars, startupVars, pureVars, ioVars, daoVars>>)
    /\ WF_vars(RoundDone /\ UNCHANGED <<storeVars, startupVars, pureVars, ioVars, daoVars>>)
    /\ WF_vars(SleepDone /\ UNCHANGED <<storeVars, startupVars, pureVars, ioVars, daoVars>>)

FairSpecEngine == InitEngine /\ [][NextEngine]_vars /\ EngineFairness

(***************************************************************************)
(* Startup: void loadPersistedQueue() runs when the module is loaded and   *)
(* is suspended at await readFile; sendEmail calls can come before the     *)
(* read is over.  The transports are not the subject here: dry run.        *)
(***************************************************************************)
\* an item of the snapshot array; wellFormed is the test of the loader:
\* item && Array.isArray(item.recipients) && item.subject
Entry(id, recipients, wellFormed) ==
    [id |-> id, recipients |-> recipients, wellFormed |-> wellFormed]

\* JSON that is not an array, or no JSON at all (JSON.parse throws)
NotAnArray == [kind |-> "garbage", entries |-> <<>>]

Snapshot(entries) == [kind |-> "array", entries |-> entries]

\* what a previous process, or anything else, left at QUEUE_PERSIST_PATH
SnapshotFiles ==
    { NoFile, NotAnArray, Snapshot(<<>>),
      Snapshot(<<Entry(101, <<"a@x.com">>, TRUE)>>),
      Snapshot(<<Entry(101, <<"a@x.com">>, TRUE),
                 Entry(102, <<"b@x.com", "c@x.com">>, TRUE)>>),
      Snapshot(<<Entry(101, <<"a@x.com">>, FALSE),
                 Entry(102, <<"b@x.com">>, TRUE)>>),
      Snapshot(<<Entry(101, <<>>, TRUE)>>) }

\* the snapshot this process writes (persistQueueSnapshot): the serialized
\* jobs of persistedQueue
OwnSnapshot ==
    Snapshot([k \in 1..Len(persistedQueue) |->
                Entry(persistedQueue[k], job[persistedQueue[k]].recipients, TRUE)])

\* what readFile gives: the file as it was at startup, or, when this process
\* has written its snapshot in the meantime (the read and the write are not
\* ordered), what it wrote
ReadResults == {snapshotFile} \cup (IF nextJob > 1 THEN {OwnSnapshot} ELSE {})

\* the job loadPersistedQueue makes of a well-formed item
RestoredJob(item) ==
    [NewJob(item.recipients) EXCEPT !.id = item.id, !.restored = TRUE]

\* loadPersistedQueue after readFile has resolved or failed, to its end:
\* nothing for a missing file or for anything but an array; else
\* persistedQueue is replaced by the array, every well-formed item is pushed
\* on emailQueue, and processQueue() is called when the queue is not empty
LoadDone ==
    /\ loader = "reading"
    /\ loader' = "done"
    /\ \E data \in ReadResults :
          IF data.kind # "array"
          THEN UNCHANGED <<emailQueue, persistedQueue, isProcessingQueue,
                           drainer, round, job, nextJob>>
          ELSE LET restored == SelectSeq(data.entries, LAMBDA e : e.wellFormed)
                   n == Len(restored)
                   queue == emailQueue \o [k \in 1..n |-> nextJob + k - 1]
                   jobs == job \o [k \in 1..n |-> RestoredJob(restored[k])]
               IN
               /\ persistedQueue' = [k \in 1..Len(data.entries) |-> data.entries[k].id]
               /\ nextJob' = nextJob + n
               /\ IF queue # <<>>
                  THEN ProcessQueue(queue, jobs)
                  ELSE UNCHANGED <<emailQueue, isProcessingQueue, drainer,
                                   round, job>>
    /\ UNCHANGED <<config, transportMode, sendsLeft, snapshotFile>>

InitStartup ==
    /\ NoCalls
    /\ IoAtRest
    /\ DaoAtRest
    /\ StoreAtRest
    /\ config = Config(FALSE, TRUE, TRUE, FALSE)
    /\ transportMode = "free"
    /\ emailQueue = <<>>
    /\ persistedQueue = <<>>
    /\ isProcessingQueue = FALSE
    /\ drainer = "idle"
    /\ round = {}
    /\ job = <<>>
    /\ nextJob = 1
    /\ sendsLeft = MaxSends - 1
    /\ snapshotFile \in SnapshotFiles
    /\ loader = "reading"

NextStartup ==
    \/ LoadDone /\ UNCHANGED <<storeVars, pureVars, ioVars, daoVars>>
    \/ (\E to \in SendInputs : SendEmail(to)) /\ UNCHANGED <<storeVars, startupVars, pureVars, ioVars, daoVars>>
    \/ (\E j \in DOMAIN job : Deliver(j)) /\ UNCHANGED <<storeVars, startupVars, pureVars, ioVars, daoVars>>
    \/ RoundDone /\ UNCHANGED <<storeVars, startupVars, pureVars, ioVars, daoVars>>
    \/ SleepDone /\ UNCHANGED <<storeVars, startupVars, pureVars, ioVars, daoVars>>

SpecStartup == InitStartup /\ [][NextStartup]_vars

\* the event loop runs what is ready: the dry run of a claimed job returns,
\* Promise.allSettled resumes processQueue, the timer of sleep fires
\* the ids of the jobs after a start: restored ones and sent ones
StartupJobIds == 1..(2 * MaxSends + 2)

StartupFairness ==
    /\ \A j \in StartupJobIds :
          WF_vars(Deliver(j) /\ UNCHANGED <<storeVars, startupVars, pureVars, ioVars, daoVars>>)
    /\ WF_vars(RoundDone /\ UNCHANGED <<storeVars, startupVars, pureVars, ioVars, daoVars>>)
    /\ WF_vars(SleepDone /\ UNCHANGED <<storeVars, startupVars, pureVars, ioVars, daoVars>>)

SpecStartupFair == SpecStartup /\ StartupFairness

(***************************************************************************)
(* A host without credentials: SMTP_HOST is set, SMTP_USER and SMTP_PASS   *)
(* are empty, no fallback provider has a password; no dry run.             *)
(***************************************************************************)
\* the test of getTransport and tryTransport on a candidate:
\* cfg.host && cfg.user && cfg.pass
Complete(host, user, pass) == host /\ user /\ pass

\* SMTP_HOST alone for the primary; sendgrid has its default host and its
\* default user "apikey" and no password
HostWithoutCredentials ==
    Config(FALSE, FALSE, Complete(TRUE, FALSE, FALSE), Complete(TRUE, TRUE, FALSE))

\* sendEmail("alice@example.com", ...)
OneAddress == <<"a@x.com">>

InitAnonymous ==
    /\ NoCalls
    /\ IoAtRest
    /\ DaoAtRest
    /\ StoreAtRest
    /\ StartupOver
    /\ config = HostWithoutCredentials
    /\ transportMode = "free"
    /\ emailQueue = <<>>
    /\ persistedQueue = <<>>
    /\ isProcessingQueue = FALSE
    /\ drainer = "idle"
    /\ round = {}
    /\ job = <<>>
    /\ nextJob = 1
    /\ sendsLeft = MaxSends

NextAnonymous ==
    \/ (\E to \in SendInputs \cup {OneAddress} : SendEmail(to))
         /\ UNCHANGED <<storeVars, startupVars, pureVars, ioVars, daoVars>>
    \/ (\E j \in DOMAIN job : Deliver(j)) /\ UNCHANGED <<storeVars, startupVars, pureVars, ioVars, daoVars>>
    \/ RoundDone /\ UNCHANGED <<storeVars, startupVars, pureVars, ioVars, daoVars>>
    \/ SleepDone /\ UNCHANGED <<storeVars, startupVars, pureVars, ioVars, daoVars>>

SpecAnonymous == InitAnonymous /\ [][NextAnonymous]_vars

(***************************************************************************)
(* One sendEmail call delivered by a configured transport, with every      *)
(* server behaviour.                                                       *)
(***************************************************************************)
InitDelivery ==
    /\ NoCalls
    /\ IoAtRest
    /\ DaoAtRest
    /\ StoreAtRest
    /\ StartupOver
    /\ config \in {Config(FALSE, FALSE, TRUE, FALSE), Config(FALSE, FALSE, TRUE, TRUE)}
    /\ transportMode \in TransportModes
    /\ emailQueue = <<>>
    /\ persistedQueue = <<>>
    /\ isProcessingQueue = FALSE
    /\ drainer = "idle"
    /\ round = {}
    /\ job = <<>>
    /\ nextJob = 1
    /\ sendsLeft = 1

NextDelivery ==
    \/ (\E to \in SendInputs : SendEmail(to)) /\ UNCHANGED <<storeVars, startupVars, pureVars, ioVars, daoVars>>
    \/ (\E j \in DOMAIN job : Deliver(j)) /\ UNCHANGED <<storeVars, startupVars, pureVars, ioVars, daoVars>>
    \/ (\E j \in DOMAIN job : SendBatchHanded(j)) /\ UNCHANGED <<storeVars, startupVars, pureVars, daoVars>>
    \/ (\E j \in DOMAIN job : RetryBatch(j)) /\ UNCHANGED <<storeVars, startupVars, pureVars, ioVars, daoVars>>
    \/ (\E j \in DOMAIN job : Backoff(j)) /\ UNCHANGED <<storeVars, startupVars, pureVars, ioVars, daoVars>>
    \/ RoundDone /\ UNCHANGED <<storeVars, startupVars, pureVars, ioVars, daoVars>>

SpecDelivery == InitDelivery /\ [][NextDelivery]_vars

(***************************************************************************)
(* The snapshot file of the queue: addPersistedJob and removePersistedJob   *)
(* change persistedQueue and call persistQueueSnapshot, which awaits mkdir, *)
(* then serializes the queue as it is by then and chains the writeFile on   *)
(* persistQueueChain.  mkdir and writeFile succeed.                         *)
(***************************************************************************)
\* JSON.stringify(persistedQueue)
Payload(queue) ==
    Snapshot([k \in 1..Len(queue) |-> Entry(queue[k], OneAddress, TRUE)])

RunnableAny(chain) == 1..Len(chain)

\* the writeFile calls that can finish next: a .then on the chain runs when
\* everything chained before it has finished
Runnable(chain) == IF chain = <<>> THEN {} ELSE {1}

InitSnapshot ==
    /\ NoCalls
    /\ IoAtRest
    /\ DaoAtRest
    /\ StoreAtRest
    /\ StartupOver
    /\ config = Config(FALSE, TRUE, TRUE, FALSE)
    /\ transportMode = "free"
    /\ emailQueue = <<>>
    /\ persistedQueue = <<>>
    /\ isProcessingQueue = FALSE
    /\ drainer = "idle"
    /\ round = {}
    /\ job = <<>>
    /\ nextJob = 1
    /\ sendsLeft = MaxSends

\* addPersistedJob(job) up to the await mkdir of persistQueueSnapshot
AddPersistedJob ==
    /\ sendsLeft > 0
    /\ sendsLeft' = sendsLeft - 1
    /\ nextJob' = nextJob + 1
    /\ persistedQueue' = Append(persistedQueue, nextJob)
    /\ mkdirs' = mkdirs + 1
    /\ UNCHANGED <<writeChain, written, handed, snapshotFile>>

\* removePersistedJob(id) up to the await mkdir: nothing for an id that is
\* not in the queue
RemovePersistedJob(id) ==
    /\ IF id \in Range(persistedQueue)
       THEN /\ persistedQueue' = Remove(persistedQueue, id)
            /\ mkdirs' = mkdirs + 1
       ELSE UNCHANGED <<persistedQueue, mkdirs>>
    /\ UNCHANGED <<sendsLeft, nextJob, writeChain, written, handed, snapshotFile>>

\* await mkdir returns in one persistQueueSnapshot call: the payload is
\* taken and its writeFile is chained
MkdirDone ==
    /\ mkdirs > 0
    /\ mkdirs' = mkdirs - 1
    /\ writeChain' = Append(writeChain, Payload(persistedQueue))
    /\ UNCHANGED <<sendsLeft, nextJob, persistedQueue, written, handed, snapshotFile>>

\* a writeFile finishes
WriteDone ==
    /\ \E k \in Runnable(writeChain) :
          /\ snapshotFile' = writeChain[k]
          /\ writeChain' = SubSeq(writeChain, 1, k - 1)
                              \o SubSeq(writeChain, k + 1, Len(writeChain))
    /\ written' = Min(written + 1, MaxCount)
    /\ UNCHANGED <<sendsLeft, nextJob, persistedQueue, mkdirs, handed>>

SnapshotFrame ==
    UNCHANGED <<storeVars, pureVars, daoVars, config, transportMode, emailQueue,
                isProcessingQueue, drainer, round, job, loader>>

NextSnapshot ==
    \/ AddPersistedJob /\ SnapshotFrame
    \/ (\E id \in 1..MaxSends : RemovePersistedJob(id)) /\ SnapshotFrame
    \/ MkdirDone /\ SnapshotFrame
    \/ WriteDone /\ SnapshotFrame

SpecSnapshot == InitSnapshot /\ [][NextSnapshot]_vars

\* the engine before its first call
EngineAtRest ==
    /\ StartupOver
    /\ IoAtRest
    /\ DaoAtRest
    /\ config = [disabled |-> FALSE, dryRun |-> TRUE,
                 complete |-> [c \in {"primary", "sendgrid"} |-> FALSE]]
    /\ transportMode = "free"
    /\ emailQueue = <<>>
    /\ persistedQueue = <<>>
    /\ isProcessingQueue = FALSE
    /\ drainer = "idle"
    /\ round = {}
    /\ job = <<>>
    /\ nextJob = 1
    /\ sendsLeft = 0

Init == InitStore /\ EngineAtRest /\ NoCalls

\* Spec: add and the closures it starts.  listForUser reads the store and
\* changes nothing: its possible answers at a state are ListForUserResults,
\* which the properties examine at every state, that is between any two steps
\* of the closures.  The calls that store their answer, and the read marks,
\* which no closure reads or writes, are exercised by NextRead.
Next ==
    \/ Tick /\ UNCHANGED <<engineVars, startupVars, pureVars, ioVars, daoVars>>
    \/ (\E r \in {AllRecipients, Explicit({"u1"})}, skip \in CallerSkips : Add(r, skip))
         /\ UNCHANGED <<engineVars, startupVars, pureVars, ioVars, daoVars>>
    \/ (\E id \in Ids : PersistStep(id)) /\ UNCHANGED <<engineVars, startupVars, pureVars, ioVars, daoVars>>
    \/ (\E id \in Ids : MirrorStart(id)) /\ UNCHANGED <<engineVars, startupVars, pureVars, ioVars, daoVars>>
    \/ (\E id \in Ids : SendStep(id)) /\ UNCHANGED <<engineVars, startupVars, pureVars, ioVars, daoVars>>
    \/ (\E id \in Ids : WaitStep(id)) /\ UNCHANGED <<engineVars, startupVars, pureVars, ioVars, daoVars>>

Spec == Init /\ [][Next]_vars

\* the callers of SpecRead add enough notifications to fill the store and
\* more than a page of listForUser
InitRead ==
    /\ NoCalls
    /\ notifications = <<>>
    /\ broadcastAll \in BOOLEAN
    /\ now = 0
    /\ nextId = 1
    /\ task = [id \in Ids |-> NoTask]
    /\ lastEmailErrorNotificationAt = 0
    /\ lastEmailErrorNotificationCode = NoCode
    /\ errorLog = [c \in ErrorCodes |-> -1]
    /\ addsLeft = MaxAdds + 2
    /\ dropped = {}
    /\ reply = NoReply
    /\ EngineAtRest

SpecRead == InitRead /\ [][NextRead]_vars

(***************************************************************************)
(* The read marks and the capacity of the store: callers add one           *)
(* notification more than the store holds and mark, list and clear in any  *)
(* order, within one tick of the clock.                                    *)
(***************************************************************************)
InitMarks ==
    /\ NoCalls
    /\ notifications = <<>>
    /\ broadcastAll \in BOOLEAN
    /\ now = 0
    /\ nextId = 1
    /\ task = [id \in Ids |-> NoTask]
    /\ lastEmailErrorNotificationAt = 0
    /\ lastEmailErrorNotificationCode = NoCode
    /\ errorLog = [c \in ErrorCodes |-> -1]
    /\ addsLeft = MAX_ITEMS + 1
    /\ dropped = {}
    /\ reply = NoReply
    /\ EngineAtRest

NextMarks ==
    \/ (\E r \in {AllRecipients, Explicit({"u1"}), Explicit({})},
            skip \in CallerSkips : Add(r, skip))
         /\ UNCHANGED <<engineVars, startupVars, pureVars, ioVars, daoVars>>
    \/ (\E u \in Users : ListForUser(u)) /\ UNCHANGED <<engineVars, startupVars, pureVars, ioVars, daoVars>>
    \/ (\E u \in Users, id \in 1..nextId : MarkRead(u, id))
         /\ UNCHANGED <<engineVars, startupVars, pureVars, ioVars, daoVars>>
    \/ (\E u \in Users : MarkAllRead(u)) /\ UNCHANGED <<engineVars, startupVars, pureVars, ioVars, daoVars>>
    \/ ClearAll /\ UNCHANGED <<engineVars, startupVars, pureVars, ioVars, daoVars>>

SpecMarks == InitMarks /\ [][NextMarks]_vars

(***************************************************************************)
(* computeDaoProgress(dao), applied to records with up to MaxTasks tasks.  *)
(***************************************************************************)
\* a task without progress (undefined or null)
Missing == -1

ProgressValues == {Missing, 0, 1, 10, 30, 100}

Task(isApplicable, progress) == [isApplicable |-> isApplicable, progress |-> progress]

Tasks == [isApplicable : BOOLEAN, progress : ProgressValues]

TaskLists == UNION {[1..n -> Tasks] : n \in 0..MaxTasks}

\* applicable.reduce((acc, t) => acc + (t.progress ?? 0), 0)
RECURSIVE SumProgress(_)
SumProgress(tasks) ==
    IF tasks = <<>> THEN 0
    ELSE (IF Head(tasks).progress = Missing THEN 0 ELSE Head(tasks).progress)
         + SumProgress(Tail(tasks))

\* Math.round(num / den) for den > 0: the integer next to the quotient, a
\* half going up
MathRound(num, den) == (2 * num + den) \div (2 * den)

AllTasks(tasks) == tasks

\* (dao.tasks || []).filter((t) => t.isApplicable)
Applicable(tasks) == SelectSeq(tasks, LAMBDA t : t.isApplicable)

computeDaoProgress(tasks) ==
    LET applicable == Applicable(tasks) IN
    IF Len(applicable) = 0 THEN 0
    ELSE MathRound(SumProgress(applicable), Len(applicable))

Called(fn, input) == [fn |-> fn, input |-> input, returned |-> FALSE, result |-> 0]

InitProgress ==
    /\ StoreAtRest
    /\ EngineAtRest
    /\ call \in {Called("computeDaoProgress", tasks) : tasks \in TaskLists}

ComputeDaoProgress ==
    /\ call.fn = "computeDaoProgress" /\ ~call.returned
    /\ call' = [call EXCEPT !.returned = TRUE,
                            !.result = computeDaoProgress(call.input)]

NextProgress == ComputeDaoProgress /\ UNCHANGED <<storeVars, engineVars, startupVars, ioVars, daoVars>>

SpecProgress == InitProgress /\ [][NextProgress]_vars

(***************************************************************************)
(* PUT /api/dao/:id: the changed keys the route computes from the record   *)
(* before and after the update, and the change lines tplDaoUpdated renders *)
(* from them.                                                              *)
(***************************************************************************)
\* the dash the templates print for a missing value
VALUE_PLACEHOLDER == "-"

Member(id, name, role) == [id |-> id, name |-> name, role |-> role]

\* equipe: a leader alone; the same with a member; another leader; the two
\* roles swapped
Teams ==
    { <<Member("c1", "Awa", "chef_equipe")>>,
      <<Member("c1", "Awa", "chef_equipe"), Member("m1", "Bob", "membre_equipe")>>,
      <<Member("c2", "Cy", "chef_equipe"), Member("m1", "Bob", "membre_equipe")>>,
      <<Member("c1", "Awa", "membre_equipe"), Member("m1", "Bob", "chef_equipe")>> }

\* tasks: two lists with the same progress and one with another
DaoTaskLists ==
    { <<Task(TRUE, 10)>>,
      <<Task(TRUE, 30)>>,
      <<Task(TRUE, 30), Task(FALSE, 100)>> }

\* stored dates (ISO strings), "" for none
Dates == {"", "2025-01-05", "2025-02-10"}

Daos ==
    [numeroListe : {"A", "B"}, reference : {"A", "B"}, objetDossier : {"A", "B"},
     autoriteContractante : {"A", "B"}, dateDepot : Dates,
     equipe : Teams, tasks : DaoTaskLists]

\* the records before the update: the text fields are the same up to a
\* renaming of their values
DaosBefore ==
    {d \in Daos : /\ d.numeroListe = "A" /\ d.reference = "A" /\ d.objetDossier = "A"
                  /\ d.autoriteContractante = "A" /\ d.dateDepot # "2025-02-10"}

\* a request: the record before, the record updateDao returns, and whether
\* the body had an equipe; a body without equipe leaves the team as it was
DaoUpdates ==
    {u \in [before : DaosBefore, after : Daos, equipeInBody : BOOLEAN] :
        ~u.equipeInBody => u.after.equipe = u.before.equipe}

\* formatDateFrDateOnly(new Date(value)): dd/mm/yyyy
formatDateFrDateOnly(value) ==
    CASE value = "2025-01-05" -> "05/01/2025"
      [] value = "2025-02-10" -> "10/02/2025"
      [] OTHER                -> "Invalid Date"

\* formatDateOnly: the placeholder for no value
formatDateOnly(value) ==
    IF value = "" THEN VALUE_PLACEHOLDER ELSE formatDateFrDateOnly(value)

\* value || VALUE_PLACEHOLDER
OrPlaceholder(value) == IF value = "" THEN VALUE_PLACEHOLDER ELSE value

Chefs(equipe) == SelectSeq(equipe, LAMBDA m : m.role = "chef_equipe")

Membres(equipe) == SelectSeq(equipe, LAMBDA m : m.role # "chef_equipe")

Names(members) == [k \in 1..Len(members) |-> members[k].name]

\* teamForDao(dao).chef: the name of the first chef_equipe
TeamChef(dao) ==
    IF Chefs(dao.equipe) = <<>> THEN "Non défini" ELSE Chefs(dao.equipe)[1].name

\* formatList(names of the members that are not chef_equipe)
formatList(values) == IF values = <<>> THEN <<VALUE_PLACEHOLDER>> ELSE values

\* calculateDaoProgress of @shared/dao, as the specification words it: the
\* rounded mean over the applicable tasks
calculateDaoProgress(tasks) == computeDaoProgress(tasks)

MemberIds(equipe) == {equipe[k].id : k \in 1..Len(equipe)}

MemberOf(equipe, id) == CHOOSE m \in Range(equipe) : m.id = id

\* the route's team diff: a member added, a role changed, a member removed
TeamChangeSummary(before, updated) ==
    {[id |-> id, change |-> "added"] :
        id \in MemberIds(updated.equipe) \ MemberIds(before.equipe)}
    \cup {[id |-> id, change |-> "role"] :
            id \in {i \in MemberIds(updated.equipe) \cap MemberIds(before.equipe) :
                      MemberOf(before.equipe, i).role # MemberOf(updated.equipe, i).role}}
    \cup {[id |-> id, change |-> "removed"] :
            id \in MemberIds(before.equipe) \ MemberIds(updated.equipe)}

TeamChangedWhenSent(u) == u.equipeInBody

\* (res as any).teamChanged: set when validatedData.equipe is there and the
\* diff is not empty
TeamChanged(u) == u.equipeInBody /\ TeamChangeSummary(u.before, u.after) # {}

\* changedKeys.add("chef"); changedKeys.add("membres")
TeamKeys == {"chef", "membres"}

\* changedKeys of the route
ChangedKeys(u) ==
    {k \in {"numeroListe", "objetDossier", "reference", "autoriteContractante",
            "dateDepot"} : u.before[k] # u.after[k]}
    \cup (IF TeamChanged(u) THEN TeamKeys ELSE {})

Line(field, version, value) == [field |-> field, version |-> version, value |-> value]

\* the pair "<label> antérieur : <old>", "<label> modifié : <new>"
LinePair(field, old, new) ==
    <<Line(field, "antérieur", old), Line(field, "modifié", new)>>

TextLines(before, after, changedSet, field) ==
    IF field \in changedSet
    THEN LinePair(field, OrPlaceholder(before[field]), OrPlaceholder(after[field]))
    ELSE <<>>

\* if (changedSet.has("chef") || changedSet.has("membres")): both pairs
TeamLines(before, after, changedSet) ==
    IF "chef" \in changedSet \/ "membres" \in changedSet
    THEN LinePair("chef", TeamChef(before), TeamChef(after))
         \o LinePair("membres", formatList(Names(Membres(before.equipe))),
                     formatList(Names(Membres(after.equipe))))
    ELSE <<>>

\* if (previousProgress !== currentProgress)
ProgressLines(before, after) ==
    IF calculateDaoProgress(before.tasks) # calculateDaoProgress(after.tasks)
    THEN LinePair("progression", calculateDaoProgress(before.tasks),
                  calculateDaoProgress(after.tasks))
    ELSE <<>>

\* changeLines of tplDaoUpdated, in the order it pushes them
ChangeLines(before, after, changedSet) ==
    TextLines(before, after, changedSet, "numeroListe")
    \o TextLines(before, after, changedSet, "reference")
    \o TextLines(before, after, changedSet, "objetDossier")
    \o TextLines(before, after, changedSet, "autoriteContractante")
    \o (IF "dateDepot" \in changedSet
        THEN LinePair("dateDepot", formatDateOnly(before.dateDepot),
                      formatDateOnly(after.dateDepot))
        ELSE <<>>)
    \o TeamLines(before, after, changedSet)
    \o ProgressLines(before, after)

\* a JavaScript value that is not a string: undefined
Undefined == <<"undefined">>

\* typeof value === "string"
IsString(value) == value[1] = "string"

\* the plain message: lines.join("\n")
Text(lines) == <<"string", "text", lines>>

\* the HTML fragment: htmlSections.join("")
Html(lines) == <<"string", "html", lines>>

\* object.name of JavaScript: undefined for a property the object has not
Prop(object, name) == IF name \in DOMAIN object THEN object[name] ELSE Undefined

\* what tplDaoUpdated returns: type, title, message and data, the HTML in
\* data.html
tplDaoUpdated(before, after, changedSet) ==
    [type    |-> "dao_updated",
     title   |-> "Mise à jour d'un DAO",
     message |-> Text(ChangeLines(before, after, changedSet)),
     data    |-> [event   |-> "dao_updated",
                  changed |-> changedSet,
                  html    |-> Html(ChangeLines(before, after, changedSet))]]

\* the route: dataWithHtml = { ...(t.data || {}), html: (t as any).html }
DataWithHtml(t) == [t.data EXCEPT !.html = Prop(t, "html")]

\* hasTaskChanges of the route: a task of the body differs from the stored one
HasTaskChanges(u) == u.before.tasks # u.after.tasks

\* shouldBroadcast of the route (before is there)
ShouldBroadcast(u) ==
    \/ ChangedKeys(u) # {}
    \/ (u.equipeInBody /\ TeamChangeSummary(u.before, u.after) # {})
    \/ HasTaskChanges(u)
    \/ ~HasTaskChanges(u)

\* NotificationService.broadcast(t.type, t.title, t.message, dataWithHtml):
\* the arguments, when the route broadcasts
Broadcast(u) ==
    LET t == tplDaoUpdated(u.before, u.after, ChangedKeys(u)) IN
    [sent    |-> ShouldBroadcast(u),
     type    |-> t.type,
     message |-> t.message,
     data    |-> DataWithHtml(t)]

\* the body mirrorEmail sends: data.html when it is a string, else message
MirrorBody(item) ==
    IF IsString(item.data.html) THEN item.data.html ELSE item.message

InitDaoUpdate ==
    /\ StoreAtRest
    /\ EngineAtRest
    /\ call \in {Called("tplDaoUpdated", u) : u \in DaoUpdates}

\* the route computes changedKeys and calls tplDaoUpdated with them
UpdateDao ==
    /\ call.fn = "tplDaoUpdated" /\ ~call.returned
    /\ call' = [call EXCEPT
                  !.returned = TRUE,
                  !.result = [broadcast |-> Broadcast(call.input),
                              changedKeys |-> ChangedKeys(call.input),
                              changeLines |-> ChangeLines(call.input.before,
                                                          call.input.after,
                                                          ChangedKeys(call.input))]]

NextDaoUpdate == UpdateDao /\ UNCHANGED <<storeVars, engineVars, startupVars, ioVars, daoVars>>

SpecDaoUpdate == InitDaoUpdate /\ [][NextDaoUpdate]_vars

(***************************************************************************)
(* PUT /api/dao/:id/tasks/:taskId: the route applies the body to the task, *)
(* computes the assignees added and removed and the change type, and       *)
(* tplTaskNotification renders the detail lines.                           *)
(***************************************************************************)
\* a task never commented has no comment field
NoComment == "undefined"

\* the team of the record: namesFromIds resolves ids against it
TaskTeam ==
    <<Member("c1", "Awa", "chef_equipe"), Member("m1", "Bob", "membre_equipe")>>

\* assignedTo: undefined and [] behave alike (|| [] in the route, !ids in
\* namesFromIds), both are <<>> here; "x9" is an id outside the team
StoredAssignees == {<<>>, <<"m1">>, <<"m1", "c1">>}

DaoTasks ==
    [progress : {Missing, 0, 10, 30}, isApplicable : BOOLEAN,
     comment : {NoComment, "", "ok"}, assignedTo : StoredAssignees]

TaskKeys == {"progress", "comment", "isApplicable", "assignedTo"}

\* taskUpdateSchema: every key optional; a key that is absent carries the
\* first value of its set
TaskBodies ==
    {b \in [has : SUBSET TaskKeys, progress : {0, 10, 30},
            comment : {"", "ok", " new "}, isApplicable : BOOLEAN,
            assignedTo : {<<>>, <<"m1">>, <<"c1", "m1">>, <<"m1", "m1">>, <<"x9">>}] :
        /\ "progress" \notin b.has => b.progress = 0
        /\ "comment" \notin b.has => b.comment = ""
        /\ "isApplicable" \notin b.has => b.isApplicable = FALSE
        /\ "assignedTo" \notin b.has => b.assignedTo = <<>>}

\* sanitizeString: tags removed, then trim
sanitizeString(value) ==
    CASE value = " new " -> "new"
      [] OTHER           -> value

\* the task after the route's four conditional assignments
ApplyBody(current, body) ==
    [progress     |-> IF "progress" \in body.has THEN body.progress ELSE current.progress,
     comment      |-> IF "comment" \in body.has THEN sanitizeString(body.comment)
                      ELSE current.comment,
     isApplicable |-> IF "isApplicable" \in body.has THEN body.isApplicable
                      ELSE current.isApplicable,
     assignedTo   |-> IF "assignedTo" \in body.has
                      THEN [k \in 1..Len(body.assignedTo) |->
                               sanitizeString(body.assignedTo[k])]
                      ELSE current.assignedTo]

\* progress ?? 0
ProgressOrZero(current) == IF current.progress = Missing THEN 0 ELSE current.progress

\* comment || ""
CommentOrEmpty(current) == IF current.comment = NoComment THEN "" ELSE current.comment

\* comment || VALUE_PLACEHOLDER
CommentOrPlaceholder(current) ==
    IF current.comment \in {NoComment, ""} THEN VALUE_PLACEHOLDER ELSE current.comment

\* formatBoolean
formatBoolean(value) == IF value THEN "Oui" ELSE "Non"

\* the elements of new Set(ids), in insertion order
RECURSIVE SetOrder(_)
SetOrder(ids) ==
    IF ids = <<>> THEN <<>>
    ELSE LET front == SetOrder(SubSeq(ids, 1, Len(ids) - 1))
             last  == ids[Len(ids)]
         IN  IF last \in Range(front) THEN front ELSE Append(front, last)

AddedAll(previous, current) == SetOrder(current.assignedTo)

\* for (const id of currSet) if (!prevSet.has(id)) added.push(id)
Added(previous, current) ==
    SelectSeq(SetOrder(current.assignedTo), LAMBDA id : id \notin Range(previous.assignedTo))

\* for (const id of prevSet) if (!currSet.has(id)) removed.push(id)
Removed(previous, current) ==
    SelectSeq(SetOrder(previous.assignedTo), LAMBDA id : id \notin Range(current.assignedTo))

\* changeType of the route
ChangeType(previous, current) ==
    CASE ProgressOrZero(previous) # ProgressOrZero(current)      -> "progress"
      [] previous.isApplicable # current.isApplicable            -> "applicability"
      [] Added(previous, current) # <<>> \/ Removed(previous, current) # <<>>
                                                               -> "assignees"
      [] previous.comment # current.comment                      -> "comment"
      [] OTHER                                                -> "general"

\* comment: previous.comment !== task.comment ? task.comment : undefined
CommentParam(previous, current) ==
    IF previous.comment # current.comment THEN current.comment ELSE NoComment

\* namesFromIds: the member's name, the id itself for an id outside the team
namesFromIds(ids, equipe) ==
    [k \in 1..Len(ids) |->
        IF ids[k] \in MemberIds(equipe) THEN MemberOf(equipe, ids[k]).name ELSE ids[k]]

\* details of tplTaskNotification, previous given
Details(equipe, previous, current, changeType, added, removed, comment) ==
    (IF ProgressOrZero(previous) # ProgressOrZero(current)
     THEN LinePair("progression", ProgressOrZero(previous), ProgressOrZero(current))
     ELSE <<>>)
    \o (IF previous.isApplicable # current.isApplicable
        THEN LinePair("applicabilité", formatBoolean(previous.isApplicable),
                      formatBoolean(current.isApplicable))
        ELSE <<>>)
    \o (IF CommentOrEmpty(previous) # CommentOrEmpty(current)
        THEN LinePair("commentaire", CommentOrPlaceholder(previous),
                      CommentOrPlaceholder(current))
        ELSE <<>>)
    \o (IF changeType = "assignees"
        THEN LinePair("assignations",
                      formatList(namesFromIds(previous.assignedTo, equipe)),
                      formatList(namesFromIds(current.assignedTo, equipe)))
        ELSE <<>>)
    \o (IF added # <<>>
        THEN <<Line("assignations", "ajoutées", formatList(namesFromIds(added, equipe)))>>
        ELSE <<>>)
    \o (IF removed # <<>>
        THEN <<Line("assignations", "retirées", formatList(namesFromIds(removed, equipe)))>>
        ELSE <<>>)
    \o (IF comment \notin {NoComment, ""}
        THEN <<Line("commentaire", "saisi", comment)>>
        ELSE <<>>)

InitTaskUpdate ==
    /\ StoreAtRest
    /\ EngineAtRest
    /\ call \in {Called("tplTaskNotification", [stored |-> t, body |-> b]) :
                    t \in DaoTasks, b \in TaskBodies}

\* the route: previous = { ...task }, the body applied, the notification
\* rendered
UpdateTask ==
    /\ call.fn = "tplTaskNotification" /\ ~call.returned
    /\ LET previous == call.input.stored
           current     == ApplyBody(previous, call.input.body)
       IN  call' = [call EXCEPT
                      !.returned = TRUE,
                      !.result =
                          [previous   |-> previous,
                           current    |-> current,
                           changeType |-> ChangeType(previous, current),
                           details    |-> Details(TaskTeam, previous, current,
                                                  ChangeType(previous, current),
                                                  Added(previous, current),
                                                  Removed(previous, current),
                                                  CommentParam(previous, current))]]

NextTaskUpdate == UpdateTask /\ UNCHANGED <<storeVars, engineVars, startupVars, ioVars, daoVars>>

SpecTaskUpdate == InitTaskUpdate /\ [][NextTaskUpdate]_vars

(***************************************************************************)
(* The audit store of the automatically created users: recordAutoUserEvent *)
(* stores maskEmail(entry.email).  A string is the sequence of its         *)
(* characters.                                                             *)
(***************************************************************************)
MaxEmailLen == 4

EmailChars == {"a", "b", "@", " "}

\* entry.email undefined or null
NoEmail == <<"undefined">>

EmailInputs ==
    {NoEmail} \cup UNION {[1..n -> EmailChars] : n \in 0..MaxEmailLen}

Mask == <<"*", "*", "*">>

\* String.prototype.trim
RECURSIVE Trim(_)
Trim(s) ==
    IF s = <<>> THEN s
    ELSE IF s[1] = " " THEN Trim(Tail(s))
    ELSE IF s[Len(s)] = " " THEN Trim(SubSeq(s, 1, Len(s) - 1))
    ELSE s

\* the length of the longest prefix without "@": what /^[^@]+/ matches when
\* it is not empty
RECURSIVE LocalLen(_)
LocalLen(s) ==
    IF s = <<>> \/ s[1] = "@" THEN 0 ELSE 1 + LocalLen(Tail(s))

\* maskEmail: s.replace(/^[^@]+/, "***"), "***@***" for a falsy argument
maskEmail(e) ==
    IF e = NoEmail \/ e = <<>> THEN Mask \o <<"@">> \o Mask
    ELSE IF LocalLen(Trim(e)) = 0 THEN Trim(e)
    ELSE Mask \o SubSeq(Trim(e), LocalLen(Trim(e)) + 1, Len(Trim(e)))

InitAudit ==
    /\ StoreAtRest
    /\ EngineAtRest
    /\ call \in {Called("recordAutoUserEvent", e) : e \in EmailInputs}

\* recordAutoUserEvent: the entry stored at the head of the store
RecordAutoUserEvent ==
    /\ call.fn = "recordAutoUserEvent" /\ ~call.returned
    /\ call' = [call EXCEPT !.returned = TRUE,
                            !.result = [emailMasked |-> maskEmail(call.input)]]

NextAudit == RecordAutoUserEvent /\ UNCHANGED <<storeVars, engineVars, startupVars, ioVars, daoVars>>

SpecAudit == InitAudit /\ [][NextAudit]_vars

(***************************************************************************)
(* DaoService: the DAO numbers of one year.  The repository holds the DAOs  *)
(* by id; numeroListe is "DAO-<year>-<three digits>".                       *)
(***************************************************************************)
MaxDaos == 3

\* nextSeq.toString().padStart(3, "0"), the digits of a number below 1000
PadStart3(n) == <<(n \div 100) % 10, (n \div 10) % 10, n % 10>>

\* `DAO-${year}-${...}`
NumeroListe(n) == [prefix |-> "DAO", year |-> "2025", digits |-> PadStart3(n)]

\* parseInt of the three digits that /DAO-(\d{4})-(\d{3})/ captures
ParseSeq(numeroListe) ==
    numeroListe.digits[1] * 100 + numeroListe.digits[2] * 10 + numeroListe.digits[3]

RECURSIVE MaxOf(_)
MaxOf(numbers) ==
    IF numbers = {} THEN 0
    ELSE LET n == CHOOSE x \in numbers : TRUE
             rest == MaxOf(numbers \ {n})
         IN  IF n > rest THEN n ELSE rest

\* computeMaxSeq(list): the highest sequence among the DAOs, 0 for none
computeMaxSeq(repo) == MaxOf({ParseSeq(d.numeroListe) : d \in repo})

\* nextSeq of generateNextDaoNumber
NextSeq(repo, lastIssued) ==
    (IF lastIssued > computeMaxSeq(repo) THEN lastIssued ELSE computeMaxSeq(repo)) + 1

\* DaoService.generateNextDaoNumber: the number is returned and remembered
GenerateNextDaoNumber ==
    /\ Len(issued) < MaxDaos + 1
    /\ lastIssuedSeqByYear' = NextSeq(daoRepo, lastIssuedSeqByYear)
    /\ issued' = Append(issued, NumeroListe(NextSeq(daoRepo, lastIssuedSeqByYear)))
    /\ UNCHANGED <<daoRepo, idempotencyCache, request, clock>>

\* the DAO that createDao inserts
NewDao ==
    [id |-> Len(issued) + 1,
     numeroListe |-> NumeroListe(NextSeq(daoRepo, lastIssuedSeqByYear))]

\* what createDao does to the service and the repository
InsertNewDao ==
    /\ Len(issued) < MaxDaos + 1
    /\ lastIssuedSeqByYear' = NextSeq(daoRepo, lastIssuedSeqByYear)
    /\ issued' = Append(issued, NumeroListe(NextSeq(daoRepo, lastIssuedSeqByYear)))
    /\ daoRepo' = daoRepo \cup {NewDao}

\* DaoService.createDao: the number is generated and the DAO is inserted
CreateDao ==
    /\ InsertNewDao
    /\ UNCHANGED <<idempotencyCache, request, clock>>

\* DaoService.deleteDao(id) of a DAO that exists: the DAO is removed and the
\* counter is set to the highest sequence that remains
DeleteDao(id) ==
    /\ \E d \in daoRepo : d.id = id
    /\ daoRepo' = {d \in daoRepo : d.id # id}
    /\ lastIssuedSeqByYear' = computeMaxSeq({d \in daoRepo : d.id # id})
    /\ UNCHANGED <<issued, idempotencyCache, request, clock>>

InitNumbers ==
    /\ StoreAtRest
    /\ EngineAtRest
    /\ NoCalls

NumbersFrame ==
    UNCHANGED <<storeVars, engineVars, startupVars, pureVars, ioVars>>

NextNumbers ==
    \/ GenerateNextDaoNumber /\ NumbersFrame
    \/ CreateDao /\ NumbersFrame
    \/ (\E id \in 1..(MaxDaos + 1) : DeleteDao(id)) /\ NumbersFrame

SpecNumbers == InitNumbers /\ [][NextNumbers]_vars

(***************************************************************************)
(* POST /api/dao with the header x-idempotency-key.  A request is handled  *)
(* in two steps of the event loop: up to the await of DaoService.createDao *)
(* (which awaits the repository), and from its result to the answer.       *)
(***************************************************************************)
IDEMP_TTL_MS == 15000
MaxClock == 30000
MaxRequests == 2

\* "" is a request without the header (or with a blank one)
IdempotencyKeys == {"", "k1"}

\* the time that passes between two steps, in ms
ClockSteps == {5000, 15000}

\* the entries that the cleaning at the head of the handler keeps
Unexpired(cache, nowTs) == {e \in cache : ~(e.expires <= nowTs)}

\* idempKey && idempotencyCache.has(idempKey), with cached.expires > nowTs
CacheHit(cache, idempKey, nowTs) ==
    idempKey # "" /\ \E e \in cache : e.key = idempKey /\ e.expires > nowTs

Cached(cache, idempKey) == CHOOSE e \in cache : e.key = idempKey

\* idempotencyCache.set(key, entry): a Map holds one entry per key
CacheSet(cache, entry) == {e \in cache : e.key # entry.key} \cup {entry}

\* the DAO of a request that has no answer yet
NoDao == [id |-> 0, numeroListe |-> NumeroListe(0)]

\* a request arrives: the expired entries are dropped; a cached key is
\* answered with the cached DAO, any other request goes on to createDao
PostDao(idempKey) ==
    /\ Len(request) < MaxRequests
    /\ idempotencyCache' = Unexpired(idempotencyCache, clock)
    /\ request' = Append(request,
         IF CacheHit(Unexpired(idempotencyCache, clock), idempKey, clock)
         THEN [key |-> idempKey, at |-> clock, pc |-> "answered", created |-> FALSE,
               dao |-> Cached(Unexpired(idempotencyCache, clock), idempKey).dao]
         ELSE [key |-> idempKey, at |-> clock, pc |-> "createDao", created |-> FALSE,
               dao |-> NoDao])
    /\ UNCHANGED <<daoRepo, lastIssuedSeqByYear, issued, clock>>

\* createDao has returned: the DAO is cached under the key and answered
PostDaoCreated(r) ==
    /\ request[r].pc = "createDao"
    /\ InsertNewDao
    /\ idempotencyCache' =
         IF request[r].key # ""
         THEN CacheSet(idempotencyCache,
                       [key |-> request[r].key, expires |-> clock + IDEMP_TTL_MS,
                        dao |-> NewDao])
         ELSE idempotencyCache
    /\ request' = [request EXCEPT ![r] = [@ EXCEPT !.pc = "answered",
                                                   !.created = TRUE,
                                                   !.dao = NewDao]]
    /\ UNCHANGED clock

\* time passes
ClockTick(ms) ==
    /\ clock + ms <= MaxClock
    /\ clock' = clock + ms
    /\ UNCHANGED <<daoRepo, lastIssuedSeqByYear, issued, idempotencyCache, request>>

InitCreate ==
    /\ StoreAtRest
    /\ EngineAtRest
    /\ NoCalls

NextCreate ==
    \/ (\E k \in IdempotencyKeys : PostDao(k)) /\ NumbersFrame
    \/ (\E r \in DOMAIN request : PostDaoCreated(r)) /\ NumbersFrame
    \/ (\E ms \in ClockSteps : ClockTick(ms)) /\ NumbersFrame

SpecCreate == InitCreate /\ [][NextCreate]_vars

(***************************************************************************)
(* The rule on an admin who is not the team leader, in PUT /api/dao/:id    *)
(* (a task of the body against the stored one) and in                      *)
(* PUT /api/dao/:id/tasks/:taskId (the body).                              *)
(***************************************************************************)
\* the values a request asks for, valid under taskSchema and under
\* taskUpdateSchema: progress and isApplicable given, assignedTo optional
RestrictedRequests ==
    {r \in [progress : {0, 10, 30}, isApplicable : BOOLEAN,
            hasAssignedTo : BOOLEAN, assignedTo : {<<>>, <<"m1">>, <<"c1", "m1">>}] :
        ~r.hasAssignedTo => r.assignedTo = <<>>}

\* req.user: role admin or not, chef_equipe of the DAO or not
Requesters == [isAdmin : BOOLEAN, isLeader : BOOLEAN]

\* forbiddenChange of PUT /:id for one task of the body: a value that
\* differs from the stored one; JSON.stringify compares the assignees in
\* their order
BulkForbiddenChange(prev, t) ==
    \/ ProgressOrZero(prev) # t.progress
    \/ prev.isApplicable # t.isApplicable
    \/ (t.hasAssignedTo /\ prev.assignedTo # t.assignedTo)

\* PUT /:id answers 403
BulkForbidden(user, prev, t) ==
    user.isAdmin /\ ~user.isLeader /\ BulkForbiddenChange(prev, t)

\* PUT /:id/tasks/:taskId answers 403: hasOwnProperty of progress,
\* isApplicable or assignedTo on the body, whatever the values
HasOwnProperty(t, key) == IF key = "assignedTo" THEN t.hasAssignedTo ELSE TRUE

SingleForbidden(user, prev, t) ==
    /\ user.isAdmin /\ ~user.isLeader
    /\ \/ HasOwnProperty(t, "progress")
       \/ HasOwnProperty(t, "isApplicable")
       \/ HasOwnProperty(t, "assignedTo")

InitAdminRule ==
    /\ StoreAtRest
    /\ EngineAtRest
    /\ call \in {Called("adminRestriction", [user |-> u, stored |-> t, asked |-> r]) :
                    u \in Requesters, t \in DaoTasks, r \in RestrictedRequests}

\* the two routes decide on the same request
DecideAdminRule ==
    /\ call.fn = "adminRestriction" /\ ~call.returned
    /\ call' = [call EXCEPT
                  !.returned = TRUE,
                  !.result = [bulk   |-> BulkForbidden(call.input.user, call.input.stored,
                                                       call.input.asked),
                              single |-> SingleForbidden(call.input.user,
                                                         call.input.stored,
                                                         call.input.asked)]]

NextAdminRule ==
    DecideAdminRule /\ UNCHANGED <<storeVars, engineVars, startupVars, ioVars, daoVars>>

SpecAdminRule == InitAdminRule /\ [][NextAdminRule]_vars

(***************************************************************************)
(* The cooldown of the error notifications: callers add one notification   *)
(* at a time (the next add comes when no closure is in flight), often      *)
(* enough for three mirrors to fail.                                       *)
(***************************************************************************)
Idle == \A id \in Ids : task[id].pc \in {"none", "done", "crashed"}

AddWhenIdle(recipients, skip) == Idle /\ Add(recipients, skip)

InitCooldown ==
    /\ NoCalls
    /\ EngineAtRest
    /\ notifications = <<>>
    /\ broadcastAll = FALSE
    /\ now = 0
    /\ nextId = 1
    /\ task = [id \in Ids |-> NoTask]
    /\ lastEmailErrorNotificationAt = 0
    /\ lastEmailErrorNotificationCode = NoCode
    /\ errorLog = [c \in ErrorCodes |-> -1]
    /\ addsLeft = MaxAdds + 2
    /\ dropped = {}
    /\ reply = NoReply

NextCooldown ==
    \/ Tick /\ UNCHANGED <<engineVars, startupVars, pureVars, ioVars, daoVars>>
    \/ (\E skip \in CallerSkips : AddWhenIdle(AllRecipients, skip))
         /\ UNCHANGED <<engineVars, startupVars, pureVars, ioVars, daoVars>>
    \/ (\E id \in Ids : PersistStep(id)) /\ UNCHANGED <<engineVars, startupVars, pureVars, ioVars, daoVars>>
    \/ (\E id \in Ids : MirrorStart(id)) /\ UNCHANGED <<engineVars, startupVars, pureVars, ioVars, daoVars>>
    \/ (\E id \in Ids : SendStep(id)) /\ UNCHANGED <<engineVars, startupVars, pureVars, ioVars, daoVars>>
    \/ (\E id \in Ids : WaitStep(id)) /\ UNCHANGED <<engineVars, startupVars, pureVars, ioVars, daoVars>>

SpecCooldown ==
    InitCooldown /\ [][NextCooldown]_vars

(***************************************************************************)
(* Properties of the notification store.                                   *)
(***************************************************************************)
Started(id) == task[id].pc # "none"

Item(id) == notifications[CHOOSE i \in 1..Len(notifications) : notifications[i].id = id]

Lists(userId, id) ==
    \A r \in ListForUserResults(userId) : \E k \in 1..Len(r) : r[k].id = id

C2_TasksNeverFailAdd ==
    /\ reply.op = "add" => InStore(reply.id) /\ task[reply.id].pc = "persist"
    /\ \A id \in Ids :
          Started(id) => /\ task[id].pc # "crashed"
                         /\ InStore(id) \/ id \in dropped

C2_Witness ==
    \E id \in Ids :
        /\ task[id].result = "failed"
        /\ task[id].calls = MIRROR_ATTEMPTS
        /\ InStore(id)

\* C3: for each error code, two error notifications with that code are never
\* added less than EMAIL_ERROR_NOTIFY_INTERVAL_MS apart, also when failures
\* with other codes come in between.
ErrorAdded(c) ==
    /\ nextId' = nextId + 1
    /\ notifications' # <<>>
    /\ notifications'[1].id = nextId
    /\ notifications'[1].code = c

C3_OnePerCodePerWindow ==
    [][\A c \in ErrorCodes :
          ErrorAdded(c) =>
              \/ errorLog[c] = -1
              \/ now - errorLog[c] >= EMAIL_ERROR_NOTIFY_INTERVAL_MS]_vars

\* C4: a mirror-exempt notification never causes a sendEmail call; the error
\* notification added by a failed mirror is mirror-exempt; so a notification
\* added by a mirror was caused by one a caller added, and one mirror adds at
\* most one notification.
C4_NoMirrorCascade ==
    /\ \A id \in Ids : task[id].skip => task[id].calls = 0
    /\ \A id \in Ids :
          task[id].parent # 0 =>
              /\ task[id].skip
              /\ task[task[id].parent].parent = 0
    /\ \A id \in Ids : Cardinality({c \in Ids : task[c].parent = id}) <= 1

C4_Witness ==
    \E id \in Ids :
        /\ task[id].parent # 0
        /\ task[id].pc = "done"
        /\ task[id].calls = 0

(***************************************************************************)
(* Properties of the delivery engine.                                      *)
(***************************************************************************)
Jobs == DOMAIN job

Attempted(j) == Len(job[j].recipients)

Over(j) == j \in Jobs /\ job[j].pc \in {"settled", "done"}

Waiting(j) == j \in Jobs /\ job[j].pc \notin {"settled", "done"}

Resolved(j) == job[j].pc = "settled" /\ job[j].result.status = "resolved"

Rejected(j) == job[j].pc = "settled" /\ job[j].result.status = "rejected"

\* C5: every enqueued job is resolved or rejected in the end, whatever the
\* transports answer, so no batch is sent again and again without end and no
\* job waits forever behind one that does not settle.
C5_EveryJobSettles == \A j \in JobIds : Waiting(j) ~> Over(j)

\* C6: with a server whose first sendMail call fails with a temporary code
\* and whose later calls succeed, the job that got the failure is resolved
\* with sent = attempted and failed = 0, after two sendMail calls for the
\* batch that failed and one for every other batch.
C6_TemporaryThenSuccess ==
    transportMode = "thenOk" /\ 1 \in Jobs /\ job[1].pc = "settled" =>
        /\ Resolved(1)
        /\ job[1].result.sent = Attempted(1)
        /\ job[1].result.failed = 0
        /\ job[1].sends = NumBatches(Attempted(1)) + 1

\* C7: a job that ends with some recipients sent and others failed makes
\* send return normally; send raises only when no recipient was sent.
C7_PartialFailureReturns ==
    \A j \in Jobs : Rejected(j) => job[j].result.sent = 0

\* C8: with a server that fails every sendMail call with a permanent code,
\* each batch is sent once, the job is never retried, and it is rejected with
\* an error flagged permanent whose summary has sent = 0, failed = attempted.
C8_PermanentFailure ==
    transportMode = "alwaysPerm" =>
        \A j \in Jobs :
            /\ job[j].pc \notin {"backoff", "pause"}
            /\ job[j].attempt = 1
            /\ job[j].sends <= NumBatches(Attempted(j))
            /\ job[j].pc = "settled" =>
                  /\ Rejected(j)
                  /\ job[j].result.permanent
                  /\ job[j].result.code = "550"
                  /\ job[j].result.sent = 0
                  /\ job[j].result.failed = Attempted(j)
                  /\ job[j].sends = NumBatches(Attempted(j))

C8_Witness ==
    /\ transportMode = "alwaysPerm"
    /\ \E j \in Jobs : Rejected(j) /\ NumBatches(Attempted(j)) = 2

\* C9: a job is never in an attempt beyond MAX_RETRY; it waits for another
\* attempt only after one that threw an error not flagged permanent, for
\* attempt * RETRY_DELAY_MS; the attempt number grows only by one, at the
\* end of such a wait; and a job rejected before its last attempt was
\* rejected with an error flagged permanent.
AttemptsBounded ==
    \A j \in Jobs :
        /\ job[j].attempt \in 1..MAX_RETRY
        /\ job[j].pc = "backoff" =>
              /\ job[j].err.thrown
              /\ ~job[j].err.permanent
              /\ job[j].attempt < MAX_RETRY
              /\ job[j].delay = job[j].attempt * RETRY_DELAY_MS
        /\ Rejected(j) /\ job[j].attempt < MAX_RETRY => job[j].result.permanent

AttemptGrowsAfterBackoff ==
    \A j \in Jobs :
        job'[j].attempt # job[j].attempt =>
            \/ job[j].pc = "backoff" /\ job'[j].attempt = job[j].attempt + 1
            \/ job[j].pc = "settled" /\ job'[j] = Done

C9_WholeJobRetryBounded == []AttemptsBounded /\ [][AttemptGrowsAfterBackoff]_vars

C9_Witness ==
    \E j \in Jobs :
        /\ Rejected(j)
        /\ job[j].attempt = MAX_RETRY
        /\ ~job[j].result.permanent

\* no transport can be resolved: no dry run, and getTransport gives null
NoTransport == ~config.dryRun /\ GetTransportResults({}) = {NoHost}

\* C10 as stated: when no transport can be resolved, send queues nothing,
\* neither in the in-memory queue nor in the persisted queue.
C10_NoQueueWithoutTransport ==
    NoTransport => emailQueue = <<>> /\ persistedQueue = <<>>

\* C10: when no transport can be resolved, send still enqueues the job: it
\* is in the persisted queue until it settles, it is claimed from the
\* in-memory queue like any job, and its first delivery attempt rejects it
\* with an error flagged permanent (sent = 0, failed = attempted), with no
\* sendMail call and no retry.
C10_RejectedAtDelivery ==
    NoTransport =>
        \A j \in Jobs :
            /\ job[j].pc \in {"queued", "deliver", "settled", "done"}
            /\ job[j].attempt = 1
            /\ job[j].pc \in {"queued", "deliver"} <=> j \in Range(persistedQueue)
            /\ job[j].pc = "queued" <=> j \in Range(emailQueue)
            /\ job[j].pc = "settled" =>
                  /\ Rejected(j)
                  /\ job[j].result.permanent
                  /\ job[j].result.code = NoCode
                  /\ job[j].result.sent = 0
                  /\ job[j].result.failed = Attempted(j)

C10_Witness ==
    /\ NoTransport
    /\ \E j \in Jobs : Rejected(j)
    /\ emailQueue # <<>>

\* C11: no job in the queue or in delivery has an empty recipient list,
\* whether sendEmail enqueued it or loadPersistedQueue restored it.
C11_NoEmptyRecipientJob ==
    \A j \in Jobs : job[j].pc # "done" => job[j].recipients # <<>>

\* the distinct normalized valid addresses of an input list
ValidOf(to) ==
    {normalizeEmail(to[i]) : i \in 1..Len(to)} \cap {"a@x.com", "b@x.com", "c@x.com"}

\* C12: the recipients of a job that sendEmail enqueued are the distinct
\* normalized valid addresses of the input, each once (2 of them for
\* a@x.com, not-an-email, b@x.com), every batch handed to sendMail is made of
\* them, and such a job is rejected only for what the transports did.
C12_InvalidAddressesExcluded ==
    \A j \in Jobs :
        job[j].pc # "done" /\ ~job[j].restored =>
            /\ Range(job[j].recipients) = ValidOf(job[j].to)
            /\ Len(job[j].recipients) = Cardinality(ValidOf(job[j].to))
            /\ job[j].to = <<"a@x.com", "not-an-email", "b@x.com">>
                  => Len(job[j].recipients) = 2
            /\ job[j].pc = "send" =>
                  /\ Batch(job[j]) # <<>>
                  /\ Range(Batch(job[j])) \subseteq ValidOf(job[j].to)
            /\ Rejected(j) => job[j].result.code \in TransportCodes \/ NoTransport

C12_Witness ==
    /\ ~config.dryRun
    /\ \E j \in Jobs :
          /\ job[j].to = <<"a@x.com", "not-an-email", "b@x.com">>
          /\ Resolved(j)
          /\ job[j].result.sent = 2

InFlight(j) == job[j].pc \in {"queued", "deliver", "send", "pause", "backoff"}

\* C13: every job that waits in the in-memory queue or is being delivered
\* has an entry with its id in the persisted queue, also when sendEmail calls
\* come while loadPersistedQueue is still reading the snapshot.
C13_PersistedWhileInFlight ==
    \A j \in Jobs : InFlight(j) => job[j].id \in Range(persistedQueue)

\* the flag tells whether a drainer is in its loop, and only a drainer in
\* its loop holds a round
OneDrainer ==
    /\ isProcessingQueue <=> drainer # "idle"
    /\ round # {} => drainer = "round"

\* a step of sendEmail or of loadPersistedQueue, which call processQueue
CallsProcessQueue == nextJob' # nextJob \/ loader' # loader

\* such a call while a drainer is active claims nothing: the round, the
\* drainer and every job there was stay as they are, the queue only grows at
\* its end, and the new jobs wait
ReentrantCallIsNoOp ==
    isProcessingQueue /\ CallsProcessQueue =>
        /\ isProcessingQueue'
        /\ round' = round
        /\ drainer' = drainer
        /\ \A j \in Jobs : job'[j] = job[j]
        /\ \A j \in DOMAIN job' \ Jobs : job'[j].pc = "queued"
        /\ Len(emailQueue') >= Len(emailQueue)
        /\ SubSeq(emailQueue', 1, Len(emailQueue)) = emailQueue

\* C14: at most one drainer runs; a call of processQueue made by sendEmail
\* or by the startup load while a drainer is active returns without
\* claiming any job.
C14_SingleDrainer == []OneDrainer /\ [][ReentrantCallIsNoOp]_vars

C14_Witness ==
    /\ loader = "done"
    /\ drainer = "round"
    /\ \E j \in round : job[j].pc = "deliver" /\ ~job[j].restored
    /\ \E k \in Range(emailQueue) : job[k].restored

Delivering(j) == job[j].pc \in {"deliver", "send", "pause", "backoff"}

AtMostMaxConcurrent ==
    /\ Cardinality({j \in Jobs : Delivering(j)}) <= MAX_CONCURRENT
    /\ Cardinality(round) <= MAX_CONCURRENT
    /\ \A j \in Jobs : Delivering(j) => j \in round

NewRoundAfterAllSettled ==
    round # {} /\ round' # round => \A j \in round : job[j].pc = "settled"

\* C15: at every moment at most MAX_CONCURRENT jobs are claimed from the
\* queue and not yet settled, all of them of the current round, and the
\* round is replaced only when each of its jobs has settled.
C15_RoundsOfMaxConcurrent ==
    []AtMostMaxConcurrent /\ [][NewRoundAfterAllSettled]_vars

\* a full round in delivery, claimed after an earlier round, one of its jobs
\* past its first attempt
C15_Witness ==
    /\ Cardinality({j \in round : Delivering(j)}) = MAX_CONCURRENT
    /\ 1 \notin round
    /\ \E j \in round : job[j].attempt > 1

Claimed(j) == job[j].pc # "queued"

\* jobs are numbered in the order of their enqueueing: the queue holds the
\* waiting jobs, oldest first, and every job before a claimed one is claimed
FifoAdmission ==
    /\ \A a, b \in Jobs : a < b /\ Claimed(b) => Claimed(a)
    /\ \A i, k \in DOMAIN emailQueue : i < k => emailQueue[i] < emailQueue[k]
    /\ \A j \in Jobs : ~Claimed(j) <=> j \in Range(emailQueue)

ClaimedInOrder ==
    \A b \in Jobs :
        ~Claimed(b) /\ job'[b].pc # "queued" =>
            \A a \in 1..(b - 1) : job'[a].pc # "queued"

\* C16: of two jobs, the one enqueued first is claimed by the drainer in the
\* same round as the other or in an earlier one: a step that claims a job
\* leaves no older job in the queue, and a claimed job is never queued again.
C16_FifoAdmission ==
    /\ []FifoAdmission
    /\ [][ClaimedInOrder]_vars
    /\ [][\A j \in Jobs : Claimed(j) => job'[j].pc # "queued"]_vars

\* a round was claimed from a queue longer than a round, made of restored
\* jobs and of a job sent since: the youngest job still waits
C16_Witness ==
    /\ Cardinality(round) = MAX_CONCURRENT
    /\ \E a \in round : \E b \in Range(emailQueue) : job[a].restored /\ ~job[b].restored
    /\ \E a \in Jobs : job[a].pc = "done"

WellFormedEntries(file) == SelectSeq(file.entries, LAMBDA e : e.wellFormed)

MirrorCallsBounded ==
    \A id \in Ids :
        LET t == task[id] IN
        /\ t.calls <= MIRROR_ATTEMPTS
        /\ t.pc = "send" => t.calls = t.i /\ ~t.permanent
        /\ t.pc = "wait" =>
              /\ ~t.permanent
              /\ t.calls = t.i + 1
              /\ t.calls < MIRROR_ATTEMPTS
              /\ t.wait = Min(200 * 2^(t.calls - 1), 2000)
        /\ t.result = "sent" => t.calls >= 1 /\ ~t.permanent
        /\ t.result = "failed" =>
              /\ t.calls >= 1
              /\ t.calls < MIRROR_ATTEMPTS => t.permanent
        /\ t.result = "failed" /\ t.wait = 0 /\ t.permanent => t.calls = 1

MirrorCallsOnlyWhenSending ==
    \A id \in Ids :
        task'[id].calls # task[id].calls =>
            /\ task[id].pc = "send"
            /\ task'[id].calls = task[id].calls + 1

\* C18: the mirror calls sendEmail at most 3 times for one notification; no
\* call follows a success or a failure flagged permanent (one call when the
\* first failure is permanent); after a failure not flagged permanent it
\* sleeps min(200 * 2^i, 2000) ms and calls again, until the third call has
\* failed.
C18_MirrorRetries == []MirrorCallsBounded /\ [][MirrorCallsOnlyWhenSending]_vars

\* one mirror gave up after three calls, another on its first, permanent
\* failure
C18_Witness ==
    /\ \E id \in Ids :
          /\ task[id].result = "failed"
          /\ task[id].calls = MIRROR_ATTEMPTS
          /\ task[id].wait = 400
    /\ \E id \in Ids :
          /\ task[id].result = "failed"
          /\ task[id].calls = 1
          /\ task[id].permanent

ForRecipient(u, n) == n.recipients.all \/ u \in n.recipients.ids

\* what every answer r of listForUser(u) satisfies
FilteredCappedAnnotated(u, r) ==
    /\ Len(r) <= LIST_LIMIT
    /\ \A i, k \in DOMAIN r : i # k => r[i].id # r[k].id
    /\ \A i \in DOMAIN r :
          /\ InStore(r[i].id)
          /\ ForRecipient(u, Item(r[i].id))
          /\ r[i].read <=> u \in Item(r[i].id).readBy
    /\ Cardinality({n \in Range(notifications) : ForRecipient(u, n)}) <= LIST_LIMIT =>
          \A n \in Range(notifications) :
              ForRecipient(u, n) => \E i \in DOMAIN r : r[i].id = n.id

EmptyListStoredVisibleToNone ==
    \A n \in Range(notifications) :
        n.recipients = Explicit({}) =>
            \A u \in Users : \A r \in ListForUserResults(u) :
                \A i \in DOMAIN r : r[i].id # n.id

AddStoresListOrAll ==
    reply.op = "add" =>
        Item(reply.id).recipients =
            IF broadcastAll THEN AllRecipients ELSE reply.recipients

\* C19 (amended): listForUser(u) returns only notifications whose recipients
\* is "all" or contains u, never more than the cap, every visible one when
\* at most the cap are visible, each with read = (u is in readBy); a
\* notification stored with an empty explicit list is visible to no user,
\* and add stores the caller's list unless the broadcast-all override is
\* set, in which case it stores "all".
C19_ListForUserFiltersCapsAnnotates ==
    /\ \A u \in Users : \A r \in ListForUserResults(u) : FilteredCappedAnnotated(u, r)
    /\ reply.op = "listForUser" => FilteredCappedAnnotated(reply.user, reply.list)
    /\ EmptyListStoredVisibleToNone
    /\ AddStoresListOrAll

\* C19 as stated: a notification added with an empty explicit recipient list
\* is visible to no user.
C19_EmptyListAddedVisibleToNone ==
    reply.op = "add" /\ reply.recipients = Explicit({}) =>
        \A u \in Users : \A r \in ListForUserResults(u) :
            \A i \in DOMAIN r : r[i].id # reply.id

\* listForUser answered a user who can see more than a page, one entry of
\* the answer being read
C19_Witness ==
    /\ reply.op = "listForUser"
    /\ Len(Visible(reply.user)) > LIST_LIMIT
    /\ Len(reply.list) = LIST_LIMIT
    /\ \E i \in DOMAIN reply.list : reply.list[i].read
    /\ \E n \in Range(notifications) : n.recipients.all
    /\ \E n \in Range(notifications) : reply.user \in n.recipients.ids

\* C20: every answer of listForUser is newest first: of two entries, the one
\* added later (ids grow with every add) comes first, also when both were
\* created at the same time.
C20_NewestFirst ==
    \A u \in Users : \A r \in ListForUserResults(u) :
        \A i, k \in DOMAIN r : i < k => r[i].id > r[k].id

Present(id) == \E n \in Range(notifications) : n.id = id

\* the store after u was added to the readBy of the notification id
MarkedBy(u, id) ==
    [k \in 1..Len(notifications) |->
        IF notifications[k].id = id
        THEN [notifications[k] EXCEPT !.readBy = @ \cup {u}]
        ELSE notifications[k]]

\* a step that is a call of markRead, with its arguments and its answer
MarkReadCalled == reply'.op = "markRead"

MarkReadContract ==
    MarkReadCalled =>
        LET u == reply'.user
            id == reply'.id
        IN
        /\ reply'.ok <=> Present(id) /\ ForRecipient(u, Item(id))
        /\ ~reply'.ok => notifications' = notifications
        /\ reply'.ok =>
              /\ notifications' = MarkedBy(u, id)
              /\ \E n \in Range(notifications') : n.id = id /\ u \in n.readBy
        /\ reply'.ok /\ u \in Item(id).readBy => notifications' = notifications

\* C21: markRead(u, id) answers false and changes no readBy when no
\* notification with that id is stored or u is not a recipient of it; else
\* it answers true and u is in the readBy of that notification afterwards; a
\* call for a notification u has read answers true and changes nothing.
C21_MarkRead == [][MarkReadContract]_vars

\* markRead answered true: the user is in the readBy of the notification,
\* which another user has not read, and an older notification was evicted
C21_Witness ==
    /\ reply.op = "markRead" /\ reply.ok
    /\ dropped # {}
    /\ Present(reply.id)
    /\ reply.user \in Item(reply.id).readBy
    /\ \E u \in Users : u # reply.user /\ u \notin Item(reply.id).readBy

\* the ids of the notifications of a list visible to u and not read by u
VisibleUnreadIn(list, u) ==
    {n.id : n \in {m \in Range(list) : ForRecipient(u, m) /\ u \notin m.readBy}}

VisibleUnread(u) == VisibleUnreadIn(notifications, u)

MarkAllReadContract ==
    reply'.op = "markAllRead" =>
        LET u == reply'.user IN
        /\ reply'.count = Cardinality(VisibleUnread(u))
        /\ notifications' =
              [k \in 1..Len(notifications) |->
                  IF notifications[k].id \in VisibleUnread(u)
                  THEN [notifications[k] EXCEPT !.readBy = @ \cup {u}]
                  ELSE notifications[k]]
        /\ VisibleUnreadIn(notifications', u) = {}

OnlyAddMakesUnread ==
    reply'.op # "add" => \A u \in Users : VisibleUnread(u)' \subseteq VisibleUnread(u)

SecondMarkAllReadCountsNothing ==
    /\ reply.op = "markAllRead" /\ reply'.op = "markAllRead"
    /\ reply'.user = reply.user
    => reply'.count = 0

\* C22: markAllRead(u) answers the number of notifications visible to u and
\* unread by u before the call and marks exactly those as read by u; nothing
\* but add makes a notification unread for a user, so a second markAllRead(u)
\* with no add in between answers 0.
C22_MarkAllRead ==
    /\ [][MarkAllReadContract]_vars
    /\ [][OnlyAddMakesUnread]_vars
    /\ [][SecondMarkAllReadCountsNothing]_vars

\* markAllRead marked two notifications of a user and left alone one the
\* user cannot see
C22_Witness ==
    /\ reply.op = "markAllRead" /\ reply.count = 2
    /\ \E n \in Range(notifications) : ~ForRecipient(reply.user, n) /\ n.readBy = {}
    /\ VisibleUnread(reply.user) = {}

ItemIn(list, id) == CHOOSE n \in Range(list) : n.id = id

IdsIn(list) == {n.id : n \in Range(list)}

\* everything of a stored notification but its readBy
Created(n) == [n EXCEPT !.readBy = {}]

\* the users whose read flag of the notification id differs across the step
ReadFlagChanged(id) ==
    {u \in Users :
        (u \in ItemIn(notifications, id).readBy) # (u \in ItemIn(notifications', id).readBy)}

\* a step that is a call of markRead or markAllRead
MarkCalled == reply'.op \in {"markRead", "markAllRead"}

MarksOnlyAddTheCaller ==
    MarkCalled =>
        /\ IdsIn(notifications') = IdsIn(notifications)
        /\ [k \in 1..Len(notifications') |-> notifications'[k].id]
              = [k \in 1..Len(notifications) |-> notifications[k].id]
        /\ \A id \in IdsIn(notifications) :
              /\ ReadFlagChanged(id) \subseteq {reply'.user}
              /\ ItemIn(notifications, id).readBy \subseteq ItemIn(notifications', id).readBy
        /\ UNCHANGED <<broadcastAll, now, nextId, task, lastEmailErrorNotificationAt,
                       lastEmailErrorNotificationCode, errorLog, addsLeft, dropped>>

ImmutableAfterCreation ==
    \A id \in IdsIn(notifications) \cap IdsIn(notifications') :
        /\ Created(ItemIn(notifications', id)) = Created(ItemIn(notifications, id))
        /\ ~MarkCalled => ReadFlagChanged(id) = {}

\* C23: markRead(u, id) and markAllRead(u) change nothing in the store but
\* add u to readBy sets, so the read flag any other user sees stays; no
\* operation changes the id, the recipients, the createdAt or the data of a
\* stored notification, and no other operation changes a read flag.
C23_ReadStatePerUser ==
    [][MarksOnlyAddTheCaller]_vars /\ [][ImmutableAfterCreation]_vars

\* a notification both users can see, read by the one who marked it and not
\* by the other
C23_Witness ==
    /\ reply.op \in {"markRead", "markAllRead"}
    /\ \E n \in Range(notifications) :
          /\ n.recipients.all
          /\ reply.user \in n.readBy
          /\ \E v \in Users : v \notin n.readBy
    /\ \E n \in Range(notifications) : n.readBy = Users \ {reply.user}

ReadByGrows ==
    \A id \in IdsIn(notifications) \cap IdsIn(notifications') :
        ItemIn(notifications, id).readBy \subseteq ItemIn(notifications', id).readBy

RemovedOnlyByClearOrEviction ==
    IdsIn(notifications) \ IdsIn(notifications') # {} =>
        \/ reply'.op = "clearAll"
        \/ reply'.op = "add" /\ Len(notifications) = MAX_ITEMS

\* C24: while a notification stays in the store its readBy only grows,
\* whatever add, markRead, markAllRead and listForUser calls are made, and
\* it leaves the store only by clearAll or by eviction at capacity.
C24_ReadByGrows == [][ReadByGrows]_vars /\ [][RemovedOnlyByClearOrEviction]_vars

\* a notification read by every user, marked one after the other, in a store
\* that has evicted
C24_Witness ==
    /\ \E n \in Range(notifications) : n.readBy = Users
    /\ dropped # {}
    /\ Len(notifications) = MAX_ITEMS
    /\ reply.op = "markRead" /\ reply.ok

\* the store holds the notifications newest first: ids grow with every add
NewestFirstStore ==
    \A i, k \in 1..Len(notifications) : i < k => notifications[i].id > notifications[k].id

AddKeepsNewestDropsOldest ==
    reply'.op = "add" =>
        LET gone == IdsIn(notifications) \ IdsIn(notifications') IN
        /\ notifications'[1].id = reply'.id
        /\ reply'.id \notin IdsIn(notifications)
        /\ Cardinality(gone) = IF Len(notifications) = MAX_ITEMS THEN 1 ELSE 0
        /\ \A g \in gone : \A n \in Range(notifications') : g < n.id
        /\ \A k \in 2..Len(notifications') : notifications'[k] = notifications[k - 1]

\* C25: the store never holds more than MAX_ITEMS notifications; an add at
\* capacity drops exactly the notifications added earliest and keeps the new
\* one, at the head.
C25_CapacityDropsOldest ==
    /\ [](Len(notifications) <= MAX_ITEMS /\ NewestFirstStore)
    /\ [][AddKeepsNewestDropsOldest]_vars

\* add at capacity: the store is full, holds the new notification and has
\* lost the first one
C25_Witness ==
    /\ reply.op = "add"
    /\ Len(notifications) = MAX_ITEMS
    /\ notifications[1].id = MAX_ITEMS + 1
    /\ 1 \in dropped /\ ~Present(1)

ApplicableIndexes(tasks) == {i \in DOMAIN tasks : tasks[i].isApplicable}

RECURSIVE TotalOver(_, _)
TotalOver(tasks, S) ==
    IF S = {} THEN 0
    ELSE LET i == CHOOSE k \in S : TRUE
             p == tasks[i].progress
         IN (IF p = Missing THEN 0 ELSE p) + TotalOver(tasks, S \ {i})

Abs(x) == IF x < 0 THEN -x ELSE x

\* C27: computeDaoProgress is the mean of progress, a missing progress
\* counting 0, over the tasks whose isApplicable is true, rounded to the
\* nearest integer, and 0 when no task is applicable; 10 and 30 applicable
\* plus 100 not applicable give 20.
C27_ProgressIsRoundedMean ==
    call.fn = "computeDaoProgress" /\ call.returned =>
        LET S == ApplicableIndexes(call.input)
            n == Cardinality(S)
            total == TotalOver(call.input, S)
        IN
        /\ n = 0 => call.result = 0
        /\ n > 0 => 2 * Abs(call.result * n - total) <= n
        /\ call.input = <<Task(TRUE, 10), Task(TRUE, 30), Task(FALSE, 100)>>
              => call.result = 20

\* a mean that is not an integer, over applicable tasks one of which has no
\* progress, with a task that is not applicable left out
C27_Witness ==
    /\ call.fn = "computeDaoProgress" /\ call.returned
    /\ \E i \in DOMAIN call.input :
          call.input[i].isApplicable /\ call.input[i].progress = Missing
    /\ \E i \in DOMAIN call.input :
          ~call.input[i].isApplicable /\ call.input[i].progress = 100
    /\ LET S == ApplicableIndexes(call.input) IN
          /\ TotalOver(call.input, S) % Cardinality(S) # 0
          /\ call.result > 0

(***************************************************************************)
(* C28: for every before/after pair of a record with no field differences  *)
(* the changed keys the route computes are empty and tplDaoUpdated renders *)
(* no "antérieur/modifié" change line.                                     *)
(***************************************************************************)
UpdateReturned == call.fn = "tplDaoUpdated" /\ call.returned

C28_NoDifferenceNoChangeLine ==
    (UpdateReturned /\ call.input.before = call.input.after)
        => /\ call.result.changedKeys = {}
           /\ call.result.changeLines = <<>>

\* an update whose body carries the team and that changes nothing has been
\* rendered
C28_Witness ==
    /\ UpdateReturned
    /\ call.input.before = call.input.after
    /\ call.input.equipeInBody
    /\ Len(call.input.before.equipe) = 2

(***************************************************************************)
(* C29: the update notification never describes an unchanged field as      *)
(* changed: an "antérieur/modifié" pair is rendered for the list number,   *)
(* the reference, the subject, the authority, the deposit date, the team   *)
(* leader or the members only when that field's value differs between     *)
(* before and after; adding or removing a member without changing the team *)
(* leader renders no team-leader change line.                              *)
(***************************************************************************)
FieldValue(dao, field) ==
    CASE field = "chef"    -> <<TeamChef(dao)>>
      [] field = "membres" -> Names(Membres(dao.equipe))
      [] OTHER             -> <<dao[field]>>

DescribedFields ==
    {"numeroListe", "reference", "objetDossier", "autoriteContractante",
     "dateDepot", "chef", "membres"}

C29_OnlyDifferingFieldsDescribed ==
    UpdateReturned =>
        \A k \in 1..Len(call.result.changeLines) :
            LET field == call.result.changeLines[k].field
            IN  field \in DescribedFields
                    => FieldValue(call.input.before, field)
                         # FieldValue(call.input.after, field)

(***************************************************************************)
(* C30: a single-task update that changes only the progress (10 to 30)     *)
(* renders exactly the detail lines "Progression antérieure : <old>%" and  *)
(* "Progression modifiée : <new>%"; in general the pair of detail lines    *)
(* for progress, applicability or comment is present exactly when that     *)
(* field differs between the previous and the current task (a missing      *)
(* progress reads as 0, a missing comment as empty), and no assignee line  *)
(* is present when the set of assignees is unchanged.                      *)
(***************************************************************************)
TaskReturned == call.fn = "tplTaskNotification" /\ call.returned

HasPair(details, field) ==
    \E k \in 1..(Len(details) - 1) :
        /\ details[k].field = field /\ details[k].version = "antérieur"
        /\ details[k + 1].field = field /\ details[k + 1].version = "modifié"

HasNoPairLine(details, field) ==
    \A k \in 1..Len(details) :
        details[k].field = field => details[k].version \notin {"antérieur", "modifié"}

PairExactlyWhen(details, field, differs) ==
    IF differs THEN HasPair(details, field) ELSE HasNoPairLine(details, field)

SameAssignees(previous, current) ==
    Range(previous.assignedTo) = Range(current.assignedTo)

OnlyProgressChanged(previous, current) ==
    /\ ProgressOrZero(previous) # ProgressOrZero(current)
    /\ previous.isApplicable = current.isApplicable
    /\ CommentOrEmpty(previous) = CommentOrEmpty(current)
    /\ SameAssignees(previous, current)

C30_TaskDetailLines ==
    TaskReturned =>
        LET previous == call.result.previous
            current  == call.result.current
            details  == call.result.details
        IN  /\ OnlyProgressChanged(previous, current)
                => details = LinePair("progression", ProgressOrZero(previous),
                                      ProgressOrZero(current))
            /\ PairExactlyWhen(details, "progression",
                               ProgressOrZero(previous) # ProgressOrZero(current))
            /\ PairExactlyWhen(details, "applicabilité",
                               previous.isApplicable # current.isApplicable)
            /\ PairExactlyWhen(details, "commentaire",
                               CommentOrEmpty(previous) # CommentOrEmpty(current))
            /\ SameAssignees(previous, current)
                => \A k \in 1..Len(details) : details[k].field # "assignations"

\* the progress of a task went from 10 to 30 with the same assignees sent
\* again, and the two progress lines were rendered
C30_Witness ==
    /\ TaskReturned
    /\ call.result.previous.progress = 10
    /\ call.result.current.progress = 30
    /\ "assignedTo" \in call.input.body.has
    /\ call.input.body.assignedTo # <<>>
    /\ OnlyProgressChanged(call.result.previous, call.result.current)
    /\ call.result.details = LinePair("progression", 10, 30)

(***************************************************************************)
(* C31: no stored audit entry exposes a raw email local part: for every    *)
(* email given to recordAutoUserEvent (missing, empty, without "@" or      *)
(* starting with "@" included) the stored emailMasked contains "***" and   *)
(* does not contain the characters that preceded the "@" in the input.     *)
(***************************************************************************)
Contains(s, part) ==
    \E k \in 0..(Len(s) - Len(part)) : SubSeq(s, k + 1, k + Len(part)) = part

\* the characters before the first "@"
LocalPart(s) == SubSeq(s, 1, LocalLen(s))

AuditStored == call.fn = "recordAutoUserEvent" /\ call.returned

C31_StoredEmailIsMasked ==
    AuditStored =>
        /\ Contains(call.result.emailMasked, Mask)
        /\ (call.input # NoEmail /\ LocalPart(Trim(call.input)) # <<>>)
              => ~Contains(LocalPart(call.result.emailMasked),
                           LocalPart(Trim(call.input)))

(***************************************************************************)
(* C32: a host that has failed within a job's lifetime is excluded for the *)
(* rest of that job: after a batch sent through host H failed with a       *)
(* temporary error, no later send of that job attempt (the retry of that   *)
(* batch or any following batch) goes through H, for every configuration   *)
(* of providers, also when no other provider passes its probe.             *)
(***************************************************************************)
C32_FailedHostNotUsedAgain ==
    \A j \in DOMAIN job :
        job[j].pc = "send" => job[j].host \notin job[j].excluded

(***************************************************************************)
(* C33: within one delivery attempt of a job the batches are sent in the   *)
(* order of the job's recipient list, each of at most BATCH_SIZE           *)
(* recipients and together covering every recipient exactly once; a batch  *)
(* that failed temporarily is retried before any later batch is sent, and  *)
(* a batch that failed permanently is skipped and the next batch is sent.  *)
(***************************************************************************)
\* the batch about to be sent starts on a multiple of BATCH_SIZE inside the
\* list and holds 1..BATCH_SIZE recipients: the batches cut the list into
\* consecutive pieces
BatchesCutTheList ==
    \A j \in DOMAIN job :
        job[j].pc \in {"send", "pause"} =>
            /\ job[j].index < Len(job[j].recipients)
            /\ job[j].index % BATCH_SIZE = 0
            /\ Len(Batch(job[j])) \in 1..BATCH_SIZE
            /\ \A k \in 1..Len(Batch(job[j])) :
                  Batch(job[j])[k] = job[j].recipients[job[j].index + k]

\* the first batch starts at the head of the list; after a send the same
\* batch is sent again (after the pause), or the next one is, or the attempt
\* ends with the last batch
BatchesInOrder ==
    \A j \in DOMAIN job :
        /\ (job[j].pc = "deliver" /\ job'[j].pc = "send") => job'[j].index = 0
        /\ (job[j].pc = "pause" /\ job'[j] # job[j])
              => job'[j].pc = "send" /\ job'[j].index = job[j].index
        /\ (job[j].pc = "send" /\ job'[j] # job[j]) =>
              /\ job'[j].pc = "pause" => job'[j].index = job[j].index
              /\ job'[j].pc = "send"
                    => job'[j].index = job[j].index + BatchSize(job[j])
              /\ job'[j].pc \notin {"pause", "send"}
                    => job[j].index + BatchSize(job[j]) = Len(job[j].recipients)

\* the server that fails its first call with a temporary code: the batch is
\* paused and sent again; the server that fails every call with a permanent
\* code: the batch is counted failed and never sent again
FailedBatchRetriedOrSkipped ==
    \A j \in DOMAIN job :
        (job[j].pc = "send" /\ job'[j] # job[j]) =>
            /\ transportMode = "tempThenOk"
                  => job'[j].pc = "pause" /\ job'[j].hasErrors
            /\ transportMode = "alwaysPerm"
                  => /\ job'[j].pc # "pause"
                     /\ job'[j].pc = "send"
                           => /\ job'[j].index = job[j].index + BatchSize(job[j])
                              /\ job'[j].hasPermanentFailure
                              /\ job'[j].sent = 0

C33_BatchesInListOrder ==
    /\ []BatchesCutTheList
    /\ [][BatchesInOrder]_vars
    /\ [][FailedBatchRetriedOrSkipped]_vars

\* the second batch of a list of three is about to be sent after the first
\* one was sent twice: once failing temporarily, then with success
C33_Witness ==
    \E j \in DOMAIN job :
        /\ job[j].pc = "send"
        /\ Len(job[j].recipients) = 3
        /\ job[j].index = BATCH_SIZE
        /\ job[j].hasErrors
        /\ job[j].sent = BATCH_SIZE
        /\ Batch(job[j]) = <<job[j].recipients[3]>>

(***************************************************************************)
(* C34: snapshot writes never interleave and never go stale: for every     *)
(* interleaving of enqueues and completions the file writes are executed   *)
(* one at a time in the order they were scheduled, and once all scheduled  *)
(* writes have finished the snapshot file equals the current persisted     *)
(* queue (no older snapshot overwrites a newer one).                       *)
(***************************************************************************)
\* the write that finishes is the oldest one chained
WritesInScheduledOrder ==
    writeChain' # writeChain /\ mkdirs' = mkdirs =>
        /\ writeChain # <<>>
        /\ writeChain' = Tail(writeChain)
        /\ snapshotFile' = Head(writeChain)

\* no persistQueueSnapshot call is in progress and no write is pending
AllWritesFinished == mkdirs = 0 /\ writeChain = <<>> /\ written > 0

FileIsCurrentQueue == AllWritesFinished => snapshotFile = Payload(persistedQueue)

C35_BroadcastCarriesHtml ==
    (UpdateReturned /\ call.result.broadcast.sent) =>
        /\ IsString(call.result.broadcast.data.html)
        /\ MirrorBody(call.result.broadcast)[2] = "html"

(***************************************************************************)
(* C36: DAO numbers are never reused: over any sequence of createDao,      *)
(* generateNextDaoNumber and deleteDao calls within one year,              *)
(* generateNextDaoNumber never returns a number it has returned before,    *)
(* also after the DAO holding the highest number has been deleted.         *)
(***************************************************************************)
C36_NumbersNeverReused ==
    \A i, k \in 1..Len(issued) : i # k => issued[i] # issued[k]

(***************************************************************************)
(* C37: the rule forbidding an admin who is not team leader from changing  *)
(* task progress, applicability or assignment gives the same decision in   *)
(* both places: for the same task and the same requested values of those   *)
(* three fields, the bulk record update answers 403 exactly when the       *)
(* single-task update answers 403 (also for a request that resends the     *)
(* current values, and one that only reorders the assignees).              *)
(***************************************************************************)
C37_SameDecisionInBothRoutes ==
    (call.fn = "adminRestriction" /\ call.returned)
        => call.result.bulk = call.result.single

(***************************************************************************)
(* C38: creation is idempotent per key: POST /api/dao requests carrying    *)
(* the same non-empty x-idempotency-key within the 15 s TTL create at most *)
(* one DAO and all answer with that DAO, also when the second request      *)
(* arrives while the first is still awaiting the creation.  Here: a        *)
(* request that created a DAO under a key, and a later request with that   *)
(* key that arrived less than the TTL after it, answered the same DAO.     *)
(***************************************************************************)
C38_OneDaoPerKey ==
    \A a, b \in DOMAIN request :
        (/\ a < b
         /\ request[a].key # "" /\ request[a].key = request[b].key
         /\ request[a].pc = "answered" /\ request[a].created
         /\ request[b].pc = "answered"
         /\ request[b].at < request[a].at + IDEMP_TTL_MS)
            => request[b].dao = request[a].dao

(***************************************************************************)
(* C39: within one send call no recipient is successfully handed to the    *)
(* transport more than once: when a batch fails temporarily after earlier  *)
(* batches of the same job were sent, and the batch or the whole job is    *)
(* retried, the batches already accepted by the transport are not sent     *)
(* again.                                                                  *)
(***************************************************************************)
C39_NoRecipientHandedTwice ==
    \A i, k \in 1..Len(handed) : i # k => handed[i] # handed[k]

(***************************************************************************)
(* C40: no lost wake-up: at every point where control returns to the event *)
(* loop, if the in-memory queue is non-empty then a drainer is running     *)
(* (isProcessingQueue is true); so a job enqueued while the drainer is in  *)
(* its last round or in its inter-round sleep is claimed by that drainer   *)
(* without any further send call.                                          *)
(***************************************************************************)
NoLostWakeUp == emailQueue # <<>> => (isProcessingQueue /\ drainer # "idle")

Unclaimed(j) == j \in DOMAIN job /\ job[j].pc = "queued"

WaitingIsClaimed ==
    \A j \in StartupJobIds : Unclaimed(j) ~> ~Unclaimed(j)

C40_NoLostWakeUp == []NoLostWakeUp /\ WaitingIsClaimed

\* the jobs of the round are settled, the drainer has not resumed yet, and a
\* job that sendEmail enqueued meanwhile waits
C40_Witness ==
    /\ drainer = "round" /\ AllSettled
    /\ \E j \in DOMAIN job : job[j].pc = "queued" /\ ~job[j].restored

====
